---- MODULE Spec2Model ----
(***************************************************************************)
(* Model of the grammar / sentence-structure correction pipeline:          *)
(*   backend/core/grammar_analysis.py   (correct_grammar,                  *)
(*                                       detect_grammar_errors)            *)
(*   backend/core/sentence_structure.py (analyze_sentence_structure,       *)
(*                                       correct_sentence_structure, ...)  *)
(*   backend/core/grammar_corrector.py  (correct_text, load_grammar_model) *)
(*   backend/core/ai_service.py         (generate_ai_response, ...)        *)
(*                                                                         *)
(* Texts are TLA+ strings; a character is a string of length one.          *)
(* The only whitespace character of the modelled inputs is the space.      *)
(***************************************************************************)
EXTENDS Integers, Sequences, FiniteSets, TLC

(***************************************************************************)
(* Python str / re primitives                                              *)
(***************************************************************************)
UpperLetters ==
    {"A", "B", "C", "D", "E", "F", "G", "H", "I", "J", "K", "L", "M", "N", "O", "P", "Q",
     "R", "S", "T", "U", "V", "W", "X", "Y", "Z"}
LowerLetters ==
    {"a", "b", "c", "d", "e", "f", "g", "h", "i", "j", "k", "l", "m", "n", "o", "p", "q",
     "r", "s", "t", "u", "v", "w", "x", "y", "z"}
DigitChars == {"0", "1", "2", "3", "4", "5", "6", "7", "8", "9", "_"}

ToLower ==
    [A |-> "a", B |-> "b", C |-> "c", D |-> "d", E |-> "e", F |-> "f", G |-> "g",
     H |-> "h", I |-> "i", J |-> "j", K |-> "k", L |-> "l", M |-> "m", N |-> "n",
     O |-> "o", P |-> "p", Q |-> "q", R |-> "r", S |-> "s", T |-> "t", U |-> "u",
     V |-> "v", W |-> "w", X |-> "x", Y |-> "y", Z |-> "z"]
ToUpper ==
    [a |-> "A", b |-> "B", c |-> "C", d |-> "D", e |-> "E", f |-> "F", g |-> "G",
     h |-> "H", i |-> "I", j |-> "J", k |-> "K", l |-> "L", m |-> "M", n |-> "N",
     o |-> "O", p |-> "P", q |-> "Q", r |-> "R", s |-> "S", t |-> "T", u |-> "U",
     v |-> "V", w |-> "W", x |-> "X", y |-> "Y", z |-> "Z"]

Char(s, i) == SubSeq(s, i, i)

IsSpace(c) == c = " "
\* str.isupper() / str.islower() of one character
IsUpperChar(c) == c \in UpperLetters
IsLowerChar(c) == c \in LowerLetters
\* regex \w
IsWordChar(c) == c \in UpperLetters \/ c \in LowerLetters \/ c \in DigitChars

LowerChar(c) == IF c \in UpperLetters THEN ToLower[c] ELSE c

UpperChar(c) == IF c \in LowerLetters THEN ToUpper[c] ELSE c

RECURSIVE StrLower(_)
\* str.lower()
StrLower(s) == IF s = "" THEN "" ELSE LowerChar(Head(s)) \o StrLower(Tail(s))

\* str.capitalize(): first character upper-cased, the rest lower-cased
Capitalize(s) == IF s = "" THEN "" ELSE UpperChar(Head(s)) \o StrLower(Tail(s))

\* s[0].upper() + s[1:]
UpperFirst(s) == IF s = "" THEN "" ELSE UpperChar(Head(s)) \o Tail(s)

RECURSIVE LStrip(_)
LStrip(s) == IF s # "" /\ IsSpace(Head(s)) THEN LStrip(Tail(s)) ELSE s

RECURSIVE RStrip(_)
RStrip(s) ==
    IF s # "" /\ IsSpace(Char(s, Len(s))) THEN RStrip(SubSeq(s, 1, Len(s) - 1)) ELSE s

\* str.strip()
Strip(s) == RStrip(LStrip(s))

\* "not s or not s.strip()"
IsBlank(s) == Strip(s) = ""

StartsWith(s, p) == Len(p) <= Len(s) /\ SubSeq(s, 1, Len(p)) = p
EndsWith(s, p) == Len(p) <= Len(s) /\ SubSeq(s, Len(s) - Len(p) + 1, Len(s)) = p

RECURSIVE FindFrom(_, _, _)
\* 1-based position of the first occurrence of sub in s at or after i, 0 if none
FindFrom(sub, s, i) ==
    IF i + Len(sub) - 1 > Len(s) THEN 0
    ELSE IF SubSeq(s, i, i + Len(sub) - 1) = sub THEN i
    ELSE FindFrom(sub, s, i + 1)

\* "sub in s"
Contains(sub, s) == FindFrom(sub, s, 1) > 0

\* str.find(sub): 0-based offset, -1 if absent
Find(sub, s) == FindFrom(sub, s, 1) - 1

\* s.replace(old, new, 1)   (old is never empty where the code calls it)
Replace1(s, old, new) ==
    LET k == FindFrom(old, s, 1)
    IN IF k = 0 \/ old = "" THEN s
       ELSE SubSeq(s, 1, k - 1) \o new \o SubSeq(s, k + Len(old), Len(s))

RECURSIVE ReplaceAllFrom(_, _, _, _)
ReplaceAllFrom(s, old, new, i) ==
    LET k == FindFrom(old, s, i)
    IN IF k = 0 THEN SubSeq(s, i, Len(s))
       ELSE SubSeq(s, i, k - 1) \o new \o ReplaceAllFrom(s, old, new, k + Len(old))

\* s.replace(old, new)
ReplaceAll(s, old, new) == IF old = "" THEN s ELSE ReplaceAllFrom(s, old, new, 1)

RECURSIVE AllWordChars(_)
AllWordChars(s) == s = "" \/ (IsWordChar(Head(s)) /\ AllWordChars(Tail(s)))

\* the string matches \w+ entirely
IsWord(s) == s # "" /\ AllWordChars(s)

RECURSIVE SplitFrom(_, _, _)
\* str.split(): the maximal runs of non-whitespace characters, in order
SplitFrom(s, i, cur) ==
    IF i > Len(s) THEN (IF cur = "" THEN << >> ELSE << cur >>)
    ELSE IF IsSpace(Char(s, i))
         THEN (IF cur = "" THEN << >> ELSE << cur >>) \o SplitFrom(s, i + 1, "")
         ELSE SplitFrom(s, i + 1, cur \o Char(s, i))

Split(s) == SplitFrom(s, 1, "")

RECURSIVE Join(_)
\* ' '.join(list)
Join(l) ==
    IF l = << >> THEN ""
    ELSE IF Len(l) = 1 THEN l[1]
    ELSE l[1] \o " " \o Join(Tail(l))

RECURSIVE CountChar(_, _)
\* s.count(c)
CountChar(s, c) ==
    IF s = "" THEN 0
    ELSE (IF Head(s) = c THEN 1 ELSE 0) + CountChar(Tail(s), c)

\* The regular expressions of the pipeline are anchored sequences of
\* whitespace-separated fields.  A pattern ^f1\s+f2\s+...\s+fn$ matches a
\* string exactly when the string neither starts nor ends with whitespace and
\* its split() has n fields that match f1..fn.
NoLeadWs(s) == s # "" /\ ~IsSpace(Head(s))
NoTrailWs(s) == s # "" /\ ~IsSpace(Char(s, Len(s)))
Anchored(s) == NoLeadWs(s) /\ NoTrailWs(s)

(***************************************************************************)
(* Library collaborators: NLTK tokenizers and the TextBlob spell corrector *)
(***************************************************************************)
SentenceEnders == {".", "!", "?"}
PunctChars == {".", "!", "?", ","}
\* "c in '.!?'"
IsSentenceEnder(c) == c \in SentenceEnders
IsPunct(c) == c \in PunctChars

RECURSIVE SentFrom(_, _, _)
\* nltk sent_tokenize: a sentence ends after a run of . ! ? that is followed
\* by whitespace, except after the abbreviation "etc."; each sentence is
\* returned without surrounding whitespace and empty pieces are dropped.
SentFrom(s, i, cur) ==
    LET piece == IF Strip(cur) = "" THEN << >> ELSE << Strip(cur) >>
    IN IF i > Len(s) THEN piece
       ELSE LET c == Char(s, i)
                now == cur \o c
                boundary == /\ IsSentenceEnder(c)
                            /\ i < Len(s)
                            /\ IsSpace(Char(s, i + 1))
                            /\ ~EndsWith(StrLower(now), " etc.")
            IN IF boundary
               THEN (IF Strip(now) = "" THEN << >> ELSE << Strip(now) >>)
                    \o SentFrom(s, i + 1, "")
               ELSE SentFrom(s, i + 1, now)

sent_tokenize(s) == SentFrom(s, 1, "")

RECURSIVE WordTokFields(_)
\* nltk word_tokenize: whitespace-separated fields, a trailing , ! ? split off
\* as its own token, a trailing period split off the last field only.
WordTokFields(f) ==
    IF f = << >> THEN << >>
    ELSE LET w == f[1]
             last == Char(w, Len(w))
             splits == /\ Len(w) > 1
                       /\ IsPunct(last)
                       /\ (last = "." => Len(f) = 1)
         IN (IF splits THEN << SubSeq(w, 1, Len(w) - 1), last >> ELSE << w >>)
            \o WordTokFields(Tail(f))

word_tokenize(s) == WordTokFields(Split(s))

\* TextBlob(text).correct(): the spelling corrector, reduced to the one
\* misspelling that occurs in the modelled inputs.
Misspelled == "hapy"
Respelled == "happy"
BlobCorrect(s) == ReplaceAll(s, Misspelled, Respelled)

(***************************************************************************)
(* sentence_structure.py                                                   *)
(***************************************************************************)
\* The syntactic parser (spaCy) is an optional import; the model describes
\* the deployment without it, where nlp is None and every sentence takes the
\* regex fallback.

InSeq(x, l) == \E i \in 1..Len(l) : l[i] = x

Err(t, m, sent, sev, sug) ==
    [type |-> t, message |-> m, sentence |-> sent, severity |-> sev, suggestion |-> sug]

Pronouns == << "i", "you", "he", "she", "it", "we", "they" >>
Auxiliaries == << "am", "is", "are", "was", "were", "have", "has", "had",
                  "will", "can", "should", "would", "could" >>
NotArticleNouns == << "ok", "fine", "good", "well", "here", "there" >>
Determiners == << "the", "a", "an", "this", "that", "my", "your", "his", "her",
                  "its", "our", "their" >>
NotComplementNouns == << "good", "bad", "fine", "ok", "here", "there", "mine", "yours" >>
LikeObjects == << "it", "this", "that", "you", "him", "her", "them", "music", "food" >>
infinitive_verbs == << "like", "want", "need", "try", "start", "begin", "love",
                       "hate", "prefer", "decide", "plan", "hope", "expect" >>
common_verbs == << "play", "read", "write", "go", "come", "see", "watch", "eat",
                   "drink", "buy", "sell", "make", "do", "take", "give", "get",
                   "have", "learn", "study", "work" >>
NotVerbs == << "the", "a", "an", "my", "your", "this", "that", "it", "music",
               "food", "books" >>
Vowels == {"a", "e", "i", "o", "u"}
\* "c in 'aeiou'"
IsVowel(c) == c \in Vowels

\* ^i\s+\w+\s+name   (re.match, no end anchor)
ReINameName(s) ==
    LET f == Split(s)
    IN NoLeadWs(s) /\ Len(f) >= 3 /\ f[1] = "i" /\ IsWord(f[2]) /\ StartsWith(f[3], "name")

\* ^\w+\s+name$
ReWordName(s) ==
    LET f == Split(s) IN Anchored(s) /\ Len(f) = 2 /\ IsWord(f[1]) /\ f[2] = "name"

\* ^name\s+\w+$
ReNameWord(s) ==
    LET f == Split(s) IN Anchored(s) /\ Len(f) = 2 /\ f[1] = "name" /\ IsWord(f[2])

\* ^name\s+\w+\s+i$
ReNameWordI(s) ==
    LET f == Split(s)
    IN Anchored(s) /\ Len(f) = 3 /\ f[1] = "name" /\ IsWord(f[2]) /\ f[3] = "i"

\* ^\w+\s+name\s+i$
ReWordNameI(s) ==
    LET f == Split(s)
    IN Anchored(s) /\ Len(f) = 3 /\ IsWord(f[1]) /\ f[2] = "name" /\ f[3] = "i"

\* ^\w+\s+am\s+i$
ReWordAmI(s) ==
    LET f == Split(s)
    IN Anchored(s) /\ Len(f) = 3 /\ IsWord(f[1]) /\ f[2] = "am" /\ f[3] = "i"

\* ^i\s+am\s+(\w+)$
ReIAmWord(s) ==
    LET f == Split(s)
    IN Anchored(s) /\ Len(f) = 3 /\ f[1] = "i" /\ f[2] = "am" /\ IsWord(f[3])

\* ^(the|a|an|...)\s+\w+\s+is\s+(\w+)$
ReDetWordIsWord(s) ==
    LET f == Split(s)
    IN Anchored(s) /\ Len(f) = 4 /\ InSeq(f[1], Determiners) /\ IsWord(f[2])
       /\ f[3] = "is" /\ IsWord(f[4])

\* ^i\s+<verb>\s+(\w+)$
ReIVerbWord(s, verb) ==
    LET f == Split(s)
    IN Anchored(s) /\ Len(f) = 3 /\ f[1] = "i" /\ f[2] = verb /\ IsWord(f[3])

\* ^i\s+<verb>\s+(\w+)\s+(\w+)$
ReIVerbWordWord(s, verb) ==
    LET f == Split(s)
    IN Anchored(s) /\ Len(f) = 4 /\ f[1] = "i" /\ f[2] = verb /\ IsWord(f[3])
       /\ IsWord(f[4])

RECURSIVE FirstNotNameI(_)
\* "for part in parts: if part not in ['name', 'i']: name = part; break"
FirstNotNameI(parts) ==
    IF parts = << >> THEN ""
    ELSE IF parts[1] \notin {"name", "i"} THEN parts[1]
    ELSE FirstNotNameI(Tail(parts))

RECURSIVE InfinitiveScan(_, _, _)
\* the loop "for infin_verb in infinitive_verbs" of the regex fallback
InfinitiveScan(sentence, sl, k) ==
    IF k > Len(infinitive_verbs) THEN << >>
    ELSE LET v == infinitive_verbs[k]
             f == Split(sl)
         IN IF ReIVerbWord(sl, v) \/ ReIVerbWordWord(sl, v)
            THEN IF InSeq(f[3], common_verbs) \/ ~InSeq(f[3], NotVerbs)
                 THEN << Err("missing_infinitive",
                             "Missing 'to' before verb after '" \o v \o "'",
                             sentence, "medium",
                             IF Len(f) = 4
                             THEN "I " \o v \o " to " \o f[3] \o " " \o f[4]
                             ELSE "I " \o v \o " to " \o f[3]) >>
                 ELSE InfinitiveScan(sentence, sl, k + 1)
            ELSE InfinitiveScan(sentence, sl, k + 1)

detect_structure_errors_rulebased(sentence) ==
    LET sl == StrLower(sentence)
        words == word_tokenize(sl)
        f == Split(sl)
        fragment ==
            IF Len(words) < 3
            THEN << Err("sentence_fragment", "Sentence appears incomplete", sentence,
                        "high", "Complete the sentence with a subject and verb") >>
            ELSE << >>
        iNameName ==
            IF ReINameName(sl)
            THEN << Err("word_order",
                        "Incorrect sentence structure. Use 'My name is [name]' format",
                        sentence, "high", "My name is [name]") >>
            ELSE << >>
        wordName ==
            IF ReWordName(sl) /\ Len(words) = 2
            THEN << Err("missing_words", "Missing words. Use 'My name is [name]' format",
                        sentence, "high", "My name is " \o Capitalize(words[1])) >>
            ELSE << >>
        nameWord ==
            IF ReNameWord(sl) /\ Len(words) = 2
            THEN << Err("word_order", "Incorrect word order. Use 'My name is [name]' format",
                        sentence, "high", "My name is " \o Capitalize(words[2])) >>
            ELSE << >>
        nameI ==
            IF (ReNameWordI(sl) \/ ReWordNameI(sl)) /\ FirstNotNameI(f) # ""
            THEN << Err("word_order", "Incorrect word order. Use 'My name is [name]' format",
                        sentence, "high", "My name is " \o Capitalize(FirstNotNameI(f))) >>
            ELSE << >>
        amI ==
            IF ReWordAmI(sl) /\ f[1] \notin {"i", "am"}
            THEN << Err("word_order",
                        "Incorrect word order. Use 'My name is [name]' or 'I am [name]' format",
                        sentence, "high", "My name is " \o Capitalize(f[1])) >>
            ELSE << >>
        missingVerb ==
            IF /\ InSeq(words[1], Pronouns)
               /\ Len(words) > 1
               /\ ~InSeq(words[2], Auxiliaries)
               /\ Len(words) > 2
            THEN << Err("missing_verb", "Missing verb after subject", sentence, "medium",
                        "Add a verb like 'is', 'am', 'are', 'have', etc.") >>
            ELSE << >>
        article ==
            IF /\ ReIAmWord(sl)
               /\ IsLowerChar(Head(f[3]))
               /\ ~InSeq(f[3], NotArticleNouns)
            THEN << Err("missing_article", "Missing article 'a' or 'an' before the noun",
                        sentence, "medium",
                        IF ~IsVowel(Head(f[3])) THEN "I am a " \o f[3]
                        ELSE "I am an " \o f[3]) >>
            ELSE << >>
        complement ==
            IF /\ ReDetWordIsWord(sl)
               /\ IsLowerChar(Head(f[4]))
               /\ ~InSeq(f[4], NotComplementNouns)
            THEN << Err("missing_article_or_preposition",
                        "Consider adding 'a/an' or a preposition like 'on', 'in', 'at'",
                        sentence, "low",
                        IF ~IsVowel(Head(f[4])) THEN sentence \o " a " \o f[4]
                        ELSE sentence \o " an " \o f[4]) >>
            ELSE << >>
        iLike ==
            IF /\ ~ReIVerbWordWord(sl, "like")
               /\ ReIVerbWord(sl, "like")
               /\ ~InSeq(f[3], LikeObjects)
            THEN << Err("missing_infinitive", "Missing 'to' before verb or use '-ing' form",
                        sentence, "medium", "I like to " \o f[3]) >>
            ELSE << >>
    IN fragment \o iNameName \o wordName \o nameWord \o nameI \o amI \o missingVerb
       \o article \o complement \o iLike \o InfinitiveScan(sentence, sl, 1)

\* what the syntactic parser is in this deployment: nlp is None, or spaCy
\* loaded; then has_subject and has_verb are what the loop over the tokens of
\* a sentence finds (a token with dep_ nsubj/nsubjpass; a ROOT token with
\* pos_ VERB) and bare_noun is the place of a lower-case token tagged NOUN
\* whose predecessor is not tagged DET, ADJ, VERB or ADP (0: there is none)
NoParser == [nlp |-> FALSE]

Parses ==
    {NoParser}
    \cup [nlp : {TRUE}, has_subject : BOOLEAN, has_verb : BOOLEAN, bare_noun : {0, 2, 3}]

RECURSIVE TokenStart(_, _, _)
\* token.idx + 1: the place of the i-th token in the sentence
TokenStart(sentence, tokens, i) ==
    FindFrom(tokens[i], sentence,
             IF i = 1 THEN 1
             ELSE TokenStart(sentence, tokens, i - 1) + Len(tokens[i - 1]))

\* an error dict of the parser path that carries offsets
SpanErr(t, m, sent, st, en, txt, sev, sug) ==
    [type |-> t, message |-> m, sentence |-> sent, start |-> st, end |-> en,
     text |-> txt, severity |-> sev, suggestion |-> sug]

RECURSIVE detect_word_order_errors(_, _, _)
\* detect_word_order_errors(doc, sentence), from token i on
detect_word_order_errors(tokens, sentence, i) ==
    IF i > Len(tokens) THEN << >>
    ELSE (IF /\ StrLower(tokens[i]) = "i" /\ i + 2 <= Len(tokens)
             /\ StrLower(tokens[i + 2]) = "name"
          THEN << SpanErr("word_order", "Incorrect word order. Use 'My name is [name]'",
                          sentence, TokenStart(sentence, tokens, i) - 1,
                          TokenStart(sentence, tokens, i + 2) - 1 + Len(tokens[i + 2]),
                          Join(<< tokens[i], tokens[i + 1], tokens[i + 2] >>),
                          "high", "My name is " \o tokens[i + 1]) >>
          ELSE << >>)
         \o detect_word_order_errors(tokens, sentence, i + 1)

ArticleWords == << "a", "an", "the", "my", "your", "his", "her", "its", "our", "their" >>

\* detect_missing_articles(doc, sentence) when the tagger marks token j
detect_missing_articles(j, tokens, sentence) ==
    IF /\ 1 < j /\ j <= Len(tokens)
       /\ IsWord(tokens[j]) /\ ~IsUpperChar(Head(tokens[j]))
       /\ ~InSeq(StrLower(tokens[j - 1]), ArticleWords)
    THEN << SpanErr("missing_article",
                    "Consider adding an article (a/an/the) before '" \o tokens[j] \o "'",
                    sentence, TokenStart(sentence, tokens, j) - 1,
                    TokenStart(sentence, tokens, j) - 1 + Len(tokens[j]), tokens[j], "low",
                    IF ~IsVowel(LowerChar(Head(tokens[j]))) THEN "the " \o tokens[j]
                    ELSE "an " \o tokens[j]) >>
    ELSE << >>

RECURSIVE LeadingWord(_)
\* the \w+ a field starts with
LeadingWord(f) ==
    IF f = "" \/ ~IsWordChar(Head(f)) THEN "" ELSE Head(f) \o LeadingWord(Tail(f))

\* the patterns of detect_missing_prepositions: the words and their preposition
PrepositionPatterns ==
    << [words |-> {"interested", "good", "bad"}, prep |-> "in", first |-> "in"],
       [words |-> {"depends", "rely"}, prep |-> "on", first |-> "on"],
       [words |-> {"listen", "look"}, prep |-> "to/at", first |-> "to"] >>

RECURSIVE PrepositionScan(_, _, _, _)
\* re.finditer(pattern, sentence.lower()) for one pattern, from field k on
PrepositionScan(sentence, f, pat, k) ==
    IF k + 1 > Len(f) THEN << >>
    ELSE LET word_after == LeadingWord(f[k + 1])
             present == \E m \in 1..(Len(f) - 1) :
                           f[m] = pat.first /\ StartsWith(f[m + 1], word_after)
             found == f[k] \o " " \o word_after
         IN (IF f[k] \in pat.words /\ word_after # "" /\ ~present
             THEN << SpanErr("missing_preposition",
                             "Missing preposition '" \o pat.prep \o "' after '" \o f[k] \o "'",
                             sentence, Find(found, StrLower(sentence)),
                             Find(found, StrLower(sentence)) + Len(found), found, "medium",
                             f[k] \o " " \o pat.first \o " " \o word_after) >>
             ELSE << >>)
            \o PrepositionScan(sentence, f, pat, k + 1)

\* detect_missing_prepositions(doc, sentence)
detect_missing_prepositions(sentence) ==
    LET f == Split(StrLower(sentence))
    IN PrepositionScan(sentence, f, PrepositionPatterns[1], 1)
       \o PrepositionScan(sentence, f, PrepositionPatterns[2], 1)
       \o PrepositionScan(sentence, f, PrepositionPatterns[3], 1)

\* missing_verb reported whenever something is missing
MissingVerbReported_Either(has_subject, has_verb) == ~has_subject \/ ~has_verb

\* "if has_subject and not has_verb"
MissingVerbReported(has_subject, has_verb) == has_subject /\ ~has_verb

\* detect_structure_errors_spacy(doc, sentence), p standing for what doc holds
detect_structure_errors_spacy(p, sentence) ==
    LET tokens == word_tokenize(sentence)
        imperative == \E i \in 1..Len(tokens) :
                         StrLower(tokens[i]) \in {"please", "let", "make"}
    IN (IF ~p.has_subject /\ p.has_verb /\ ~imperative
        THEN << Err("missing_subject", "Sentence is missing a subject", sentence, "high",
                    "Add a subject (I, You, He, She, It, We, They, or a noun)") >>
        ELSE << >>)
       \o (IF MissingVerbReported(p.has_subject, p.has_verb)
           THEN << Err("missing_verb", "Sentence is missing a verb", sentence, "high",
                       "Add a verb to complete the sentence") >>
           ELSE << >>)
       \o detect_word_order_errors(tokens, sentence, 1)
       \o detect_missing_articles(p.bare_noun, tokens, sentence)
       \o detect_missing_prepositions(sentence)

\* lines 44-52: the findings of one sentence, by the parser when there is one
DetectWith(p, sentence) ==
    IF p.nlp THEN detect_structure_errors_spacy(p, sentence)
    ELSE detect_structure_errors_rulebased(sentence)

\* error.get("start", 0)
StartOf(e) == IF "start" \in DOMAIN e THEN e.start ELSE 0

RECURSIVE InsertDesc(_, _)
\* insert e behind every element whose start is not smaller (stable)
InsertDesc(e, l) ==
    IF l = << >> THEN << e >>
    ELSE IF StartOf(l[1]) >= StartOf(e) THEN << l[1] >> \o InsertDesc(e, Tail(l))
    ELSE << e >> \o l

RECURSIVE SortByStartDesc(_)
\* list.sort(key=start, reverse=True): descending start, equal keys keep
\* their original order
SortByStartDesc(l) ==
    IF l = << >> THEN << >>
    ELSE InsertDesc(l[Len(l)], SortByStartDesc(SubSeq(l, 1, Len(l) - 1)))

\* the name put into the sentence as it was typed
MyNameIs_AsTyped(name) == "My name is " \o name \o "."

\* f"My name is {name.capitalize()}."
MyNameIs(name) == "My name is " \o Capitalize(name) \o "."

EnsurePeriod(s) == IF EndsWith(s, ".") THEN s ELSE s \o "."

RECURSIVE InfinitiveRewrite(_, _)
\* "for infin_verb in infinitive_verbs: pattern2 ... pattern1 ..." : the
\* rewrite of the first verb whose pattern matches, "" when none does
InfinitiveRewrite(sl, k) ==
    IF k > Len(infinitive_verbs) THEN ""
    ELSE LET v == infinitive_verbs[k]
             f == Split(sl)
         IN IF ReIVerbWordWord(sl, v)
            THEN "I " \o v \o " to " \o f[3] \o " " \o Capitalize(f[4]) \o "."
            ELSE IF ReIVerbWord(sl, v)
            THEN "I " \o v \o " to " \o Capitalize(f[3]) \o "."
            ELSE InfinitiveRewrite(sl, k + 1)

\* capitalization and terminal punctuation of a non-empty string
Normalize(s) ==
    LET t == Strip(s)
        u == IF t # "" /\ ~IsUpperChar(Head(t)) THEN UpperFirst(t) ELSE t
    IN IF u # "" /\ ~IsSentenceEnder(Char(u, Len(u))) THEN u \o "." ELSE u

RECURSIVE CorrectionLoop(_, _, _, _)
\* "for error in sentence_errors" of generate_structure_correction; the
\* result is the value of corrected when the loop ends or breaks
CorrectionLoop(sentence, errs, k, corrected) ==
    IF k > Len(errs) THEN corrected
    ELSE
    LET e == errs[k]
        sl == StrLower(sentence)
        f == Split(sl)
        suggestion == e.suggestion
        next(c) == CorrectionLoop(sentence, errs, k + 1, c)
    IN CASE e.type = "word_order" ->
              IF ReINameName(sl) THEN MyNameIs(f[2])
              ELSE IF ReNameWordI(sl)
                   THEN (IF FirstNotNameI(f) # "" THEN MyNameIs(FirstNotNameI(f))
                         ELSE next(corrected))
              ELSE IF suggestion # "" /\ Contains("My name is", suggestion)
                   THEN EnsurePeriod(suggestion)
              ELSE next(corrected)
         [] e.type = "missing_words" ->
              IF ReWordName(sl) THEN MyNameIs(f[1]) ELSE next(corrected)
         [] e.type = "missing_subject" ->
              IF suggestion # ""
              THEN next(IF IsLowerChar(Head(corrected))
                        THEN Capitalize(Split(suggestion)[1]) \o " " \o corrected
                        ELSE suggestion \o " " \o corrected)
              ELSE next(corrected)
         [] e.type = "missing_verb" ->
              IF Contains("name", sl)
              THEN next(IF Contains("my", sl) \/ Contains("i", sl)
                        THEN ReplaceAll(sentence, "name", "name is")
                        ELSE IF Split(sentence) # << >>
                             THEN "My name is " \o Split(sentence)[Len(Split(sentence))]
                             ELSE sentence)
              ELSE next(corrected)
         [] e.type = "missing_article" ->
              IF Contains("i am", sl) /\ ReIAmWord(sl)
              THEN "I am " \o (IF ~IsVowel(Head(f[3])) THEN "a" ELSE "an") \o " "
                   \o Capitalize(f[3]) \o "."
              ELSE next(corrected)
         [] e.type = "missing_infinitive" ->
              IF suggestion # "" THEN suggestion
              ELSE next(IF InfinitiveRewrite(sl, 1) # "" THEN InfinitiveRewrite(sl, 1)
                        ELSE corrected)
         [] OTHER -> next(corrected)

RECURSIVE SelectBySentence(_, _)
\* [e for e in errors if e.get("sentence") == sentence]
SelectBySentence(errors, sentence) ==
    IF errors = << >> THEN << >>
    ELSE (IF "sentence" \in DOMAIN errors[1] /\ errors[1].sentence = sentence
          THEN << errors[1] >> ELSE << >>)
         \o SelectBySentence(Tail(errors), sentence)

\* "Use TextBlob for additional corrections", then "Ensure proper
\* capitalization and punctuation"
FinishCorrection(sentence, corrected, blob) ==
    IF corrected = sentence /\ blob # sentence
    THEN Normalize(blob)
    ELSE IF corrected # "" THEN Normalize(corrected) ELSE corrected

generate_structure_correction(sentence, errors) ==
    FinishCorrection(sentence,
        CorrectionLoop(sentence, SortByStartDesc(SelectBySentence(errors, sentence)),
                       1, sentence),
        BlobCorrect(sentence))

RECURSIVE TypesOf(_)
TypesOf(errors) ==
    IF errors = << >> THEN << >> ELSE << errors[1].type >> \o TypesOf(Tail(errors))

\* "if errors: correction = generate_structure_correction(sentence, errors);
\*  if correction and correction != sentence: corrections.append(...)"
AddCorrection(corrections, sentence, errors, correction) ==
    IF errors # << >> /\ correction # "" /\ correction # sentence
    THEN Append(corrections,
                [original |-> sentence, corrected |-> correction,
                 errors |-> TypesOf(SelectBySentence(errors, sentence))])
    ELSE corrections

RECURSIVE AnalyzeLoop(_, _, _, _, _)
RECURSIVE AnalyzeSentence(_, _, _, _, _, _)
\* "for sentence in sentences" of analyze_sentence_structure: errors
\* accumulates over the sentences of the text
AnalyzeLoop(p, sentences, k, errors, corrections) ==
    IF k > Len(sentences)
    THEN [errors |-> errors, corrections |-> corrections,
          has_structure_errors |-> Len(errors) > 0]
    ELSE IF Strip(sentences[k]) = ""
    THEN AnalyzeLoop(p, sentences, k + 1, errors, corrections)
    ELSE AnalyzeSentence(p, sentences, k, Strip(sentences[k]),
                         errors \o DetectWith(p, Strip(sentences[k])),
                         corrections)

\* the body of the loop for one non-empty sentence; errors already holds the
\* findings of this sentence
AnalyzeSentence(p, sentences, k, sentence, errors, corrections) ==
    AnalyzeLoop(p, sentences, k + 1, errors,
                AddCorrection(corrections, sentence, errors,
                              generate_structure_correction(sentence, errors)))

\* analyze_sentence_structure(text) in a deployment whose parser is p
AnalyzeWith(p, text) ==
    IF IsBlank(text) THEN [errors |-> << >>, corrections |-> << >>]
    ELSE AnalyzeLoop(p, sent_tokenize(text), 1, << >>, << >>)

\* analyze_sentence_structure(text) without a parser
analyze_sentence_structure(text) == AnalyzeWith(NoParser, text)

StructureChange(orig, corr, fixed) ==
    [type |-> "structure_correction", original |-> orig, corrected |-> corr,
     errors_fixed |-> fixed]

RECURSIVE ApplyCorrections(_, _, _, _)
\* "for correction in corrections" of correct_sentence_structure
ApplyCorrections(corrections, k, corrected_text, changes) ==
    IF k > Len(corrections) THEN [corrected |-> corrected_text, changes |-> changes]
    ELSE LET c == corrections[k]
         IN IF Contains(c.original, corrected_text)
            THEN ApplyCorrections(corrections, k + 1,
                     Replace1(corrected_text, c.original, c.corrected),
                     Append(changes, StructureChange(c.original, c.corrected, c.errors)))
            ELSE ApplyCorrections(corrections, k + 1, corrected_text, changes)

RECURSIVE SelectByTypes(_, _)
SelectByTypes(errors, types) ==
    IF errors = << >> THEN << >>
    ELSE (IF errors[1].type \in types THEN << errors[1] >> ELSE << >>)
         \o SelectByTypes(Tail(errors), types)

RECURSIVE SelectOther(_)
SelectOther(errors) ==
    IF errors = << >> THEN << >>
    ELSE (IF /\ errors[1].severity \in {"high", "medium"}
             /\ errors[1].type \notin {"missing_infinitive", "word_order",
                                       "missing_words", "missing_article"}
          THEN << errors[1] >> ELSE << >>)
         \o SelectOther(Tail(errors))

\* the error picked "in priority order"; << >> stands for None
PriorityError(errors) ==
    LET infinitive_errors == SelectByTypes(errors, {"missing_infinitive"})
        word_order_errors == SelectByTypes(errors, {"word_order", "missing_words"})
        article_errors == SelectByTypes(errors, {"missing_article"})
        other_errors == SelectOther(errors)
    IN IF infinitive_errors # << >> THEN << infinitive_errors[1] >>
       ELSE IF word_order_errors # << >> THEN << word_order_errors[1] >>
       ELSE IF article_errors # << >> THEN << article_errors[1] >>
       ELSE IF other_errors # << >> THEN << other_errors[1] >>
       ELSE << >>

\* "Use the suggestion directly if available": the last branch of the
\* suggestion chain of correct_sentence_structure
UseSuggestionDirectly(text, error) ==
    IF error.suggestion # text
    THEN [corrected |-> error.suggestion,
          changes |-> << StructureChange(text, error.suggestion, << error.type >>) >>]
    ELSE [corrected |-> text, changes |-> << >>]

\* "If no corrections found, try intelligent correction"
IntelligentCorrection(text, error) ==
    LET tl == StrLower(text)
        f == Split(tl)
        suggestion == error.suggestion
        error_type == error.type
        same == [corrected |-> text, changes |-> << >>]
        rewrite(c, fixed) ==
            [corrected |-> c, changes |-> << StructureChange(text, c, fixed) >>]
    IN IF error_type = "missing_infinitive"
       THEN IF InfinitiveRewrite(tl, 1) # ""
            THEN rewrite(InfinitiveRewrite(tl, 1), << "missing_infinitive" >>)
            ELSE IF suggestion # ""
            THEN rewrite(EnsurePeriod(suggestion), << "missing_infinitive" >>)
            ELSE same
       ELSE IF suggestion = "" THEN same
       ELSE IF ReINameName(tl)
            THEN rewrite(MyNameIs(f[2]), << "word_order", "missing_words" >>)
       ELSE IF ReWordName(tl)
            THEN rewrite(MyNameIs(f[1]), << "missing_words", "word_order" >>)
       ELSE IF ReWordAmI(tl)
            THEN (IF f[1] \notin {"i", "am"}
                  THEN rewrite(MyNameIs(f[1]), << "word_order" >>) ELSE same)
       ELSE IF ReNameWordI(tl) \/ ReWordNameI(tl)
            THEN (IF FirstNotNameI(f) # ""
                  THEN rewrite(MyNameIs(FirstNotNameI(f)),
                               << "word_order", "missing_words" >>)
                  ELSE same)
       ELSE IF Contains("My name is", suggestion)
            THEN rewrite(EnsurePeriod(suggestion), << error_type >>)
       ELSE IF error_type = "missing_article" /\ Contains("i am", tl)
            THEN (IF ReIAmWord(tl)
                  THEN rewrite("I am " \o (IF ~IsVowel(Head(f[3])) THEN "a" ELSE "an")
                               \o " " \o Capitalize(f[3]) \o ".",
                               << "missing_article" >>)
                  ELSE same)
       ELSE UseSuggestionDirectly(text, error)

\* "if error:" ... the changes of the intelligent correction are appended
WithIntelligent(text, applied, picked) ==
    IF picked # << >>
    THEN [corrected |-> IntelligentCorrection(text, picked[1]).corrected,
          changes |-> applied.changes \o IntelligentCorrection(text, picked[1]).changes]
    ELSE applied

\* the dict returned by correct_sentence_structure
StructureResult(text, errors, final) ==
    [original |-> text, corrected |-> final.corrected, changes |-> final.changes,
     errors_found |-> Len(errors), structure_errors |-> errors]

\* lines 547-752, given the errors of the analysis and the outcome of
\* "Apply corrections"
AfterCorrections(text, errors, applied) ==
    IF applied.corrected = text /\ errors # << >>
    THEN StructureResult(text, errors, WithIntelligent(text, applied, PriorityError(errors)))
    ELSE StructureResult(text, errors, applied)

AfterAnalysis(text, analysis) ==
    AfterCorrections(text, analysis.errors,
                     ApplyCorrections(analysis.corrections, 1, text, << >>))

correct_sentence_structure(text) ==
    IF IsBlank(text)
    THEN [original |-> text, corrected |-> text, changes |-> << >>]
    ELSE AfterAnalysis(text, analyze_sentence_structure(text))

(***************************************************************************)
(* grammar_analysis.py: detect_grammar_errors                              *)
(***************************************************************************)
LexErr(t, m, st, en, txt, corr, sev) ==
    [type |-> t, message |-> m, start |-> st, end |-> en, text |-> txt,
     correction |-> corr, severity |-> sev]

\* regex \b between the characters at (1-based) positions i-1 and i
BoundaryAt(s, i) ==
    LET before == i > 1 /\ i - 1 <= Len(s) /\ IsWordChar(Char(s, i - 1))
        after == i >= 1 /\ i <= Len(s) /\ IsWordChar(Char(s, i))
    IN before # after

RECURSIVE AltLenAt(_, _, _, _)
\* length of the first alternative of \b(a1|a2|...)\b that matches at i, else 0
AltLenAt(sl, i, alts, k) ==
    IF k > Len(alts) THEN 0
    ELSE LET a == alts[k]
         IN IF /\ i + Len(a) - 1 <= Len(sl)
               /\ SubSeq(sl, i, i + Len(a) - 1) = a
               /\ BoundaryAt(sl, i)
               /\ BoundaryAt(sl, i + Len(a))
            THEN Len(a)
            ELSE AltLenAt(sl, i, alts, k + 1)

RECURSIVE WordMatchesFrom(_, _, _, _)
\* re.finditer(r'\b(a1|a2|...)\b', text, re.IGNORECASE): 0-based spans;
\* tl is the lower-cased text
WordMatchesFrom(text, tl, alts, i) ==
    IF i > Len(text) THEN << >>
    ELSE LET n == AltLenAt(tl, i, alts, 1)
         IN IF n > 0
            THEN << [start |-> i - 1, end |-> i - 1 + n, text |-> SubSeq(text, i, i + n - 1)] >>
                 \o WordMatchesFrom(text, tl, alts, i + n)
            ELSE WordMatchesFrom(text, tl, alts, i + 1)

WordMatches(text, alts) == WordMatchesFrom(text, StrLower(text), alts, 1)

\* re.finditer(r'\b(a1|..)\b.*\b(a1|..)\b', text): one greedy match from the
\* first occurrence to the last one, when there are at least two
PairMatches(text, alts) ==
    LET occ == WordMatches(text, alts)
    IN IF Len(occ) >= 2
       THEN << [start |-> occ[1].start, end |-> occ[Len(occ)].end,
                text |-> SubSeq(text, occ[1].start + 1, occ[Len(occ)].end)] >>
       ELSE << >>

RECURSIVE MistakeErrors(_, _, _)
MistakeErrors(matches, message, correction) ==
    IF matches = << >> THEN << >>
    ELSE << LexErr("common_mistake", message, matches[1].start, matches[1].end,
                   matches[1].text, correction, "medium") >>
         \o MistakeErrors(Tail(matches), message, correction)

\* the common_mistakes table, in the order of the dict
common_mistakes(text) ==
    MistakeErrors(PairMatches(text, << "your", "you're" >>),
        "Check usage of 'your' vs 'you're'",
        "Use 'your' for possession, 'you're' for 'you are'")
    \o MistakeErrors(PairMatches(text, << "its", "it's" >>),
        "Check usage of 'its' vs 'it's'",
        "Use 'its' for possession, 'it's' for 'it is'")
    \o MistakeErrors(PairMatches(text, << "their", "they're", "there" >>),
        "Check usage of 'their', 'they're', or 'there'",
        "Use 'their' for possession, 'they're' for 'they are', 'there' for location")
    \o MistakeErrors(WordMatches(text, << "could of", "should of", "would of" >>),
        "Incorrect: 'could of', 'should of', 'would of'",
        "Use 'could have', 'should have', 'would have'")
    \o MistakeErrors(WordMatches(text, << "loose", "lose" >>),
        "Check 'loose' (not tight) vs 'lose' (misplace)",
        "Use 'lose' when you misplace something, 'loose' when something is not tight")
    \o MistakeErrors(WordMatches(text, << "affect", "effect" >>),
        "Check 'affect' (verb) vs 'effect' (noun)",
        "Use 'affect' as a verb (to influence), 'effect' as a noun (result)")
    \o MistakeErrors(WordMatches(text, << "then", "than" >>),
        "Check 'then' (time) vs 'than' (comparison)",
        "Use 'then' for time sequence, 'than' for comparisons")

RECURSIVE SpaceRunEnd(_, _)
SpaceRunEnd(text, i) ==
    IF i <= Len(text) /\ IsSpace(Char(text, i)) THEN SpaceRunEnd(text, i + 1) ELSE i

RECURSIVE DoubleSpaces(_, _)
\* re.finditer(r'\s{2,}', text)
DoubleSpaces(text, i) ==
    IF i > Len(text) THEN << >>
    ELSE LET j == SpaceRunEnd(text, i)
         IN IF j - i >= 2
            THEN << LexErr("formatting", "Double space detected", i - 1, j - 1,
                           SubSeq(text, i, j - 1), "Use single space", "low") >>
                 \o DoubleSpaces(text, j)
            ELSE DoubleSpaces(text, IF j > i THEN j ELSE i + 1)

\* nltk pos_tag, reduced to the one tag the code reads: a plural noun (NNS)
IsPluralNoun(w) == Len(w) > 3 /\ EndsWith(w, "s")

\* sentence[:n] and sentence[-n:]
Prefix(s, n) == SubSeq(s, 1, IF Len(s) < n THEN Len(s) ELSE n)
Suffix(s, n) == SubSeq(s, IF Len(s) < n THEN 1 ELSE Len(s) - n + 1, Len(s))

MaxFragmentText == 50
MaxTailText == 10
RunOnLength == 100

\* the "Sentence formation checks" for one sentence of the text
SentenceChecks(text, sentence) ==
    LET start_pos == Find(sentence, text)
        n == Len(sentence)
        lastc == Char(sentence, n)
        words == word_tokenize(sentence)
        lwords == word_tokenize(StrLower(sentence))
        capitalization ==
            IF ~IsUpperChar(Head(sentence))
            THEN << LexErr("capitalization", "Sentence should start with capital letter",
                           start_pos, start_pos + n, Prefix(sentence, MaxFragmentText),
                           UpperFirst(sentence), "low") >>
            ELSE << >>
        punctuation ==
            IF ~IsSentenceEnder(lastc)
            THEN << LexErr("punctuation", "Sentence should end with punctuation (. ! or ?)",
                           start_pos + n - 1, start_pos + n, Suffix(sentence, MaxTailText),
                           sentence \o ".", "medium") >>
            ELSE << >>
        fragment ==
            IF Len(lwords) < 3 /\ ~IsSentenceEnder(lastc)
            THEN << LexErr("sentence_fragment",
                           "Sentence fragment detected - incomplete thought",
                           start_pos, start_pos + n, sentence,
                           "Complete the thought: " \o sentence, "high") >>
            ELSE << >>
        run_on ==
            IF n > RunOnLength /\ CountChar(sentence, ",") < 2
            THEN << LexErr("run_on_sentence",
                           "Run-on sentence detected - consider breaking into shorter sentences",
                           start_pos, start_pos + n,
                           Prefix(sentence, MaxFragmentText) \o "...",
                           "Break into multiple sentences or add proper punctuation",
                           "medium") >>
            ELSE << >>
        agreement ==
            IF /\ Len(words) >= 3
               /\ StrLower(words[1]) = "there"
               /\ StrLower(words[2]) = "is"
               /\ \E k \in 3..Len(words) : IsPluralNoun(words[k])
            THEN << LexErr("subject_verb_agreement",
                           "Subject-verb agreement: 'there is' should be 'there are' for plural",
                           start_pos + Find("there is", sentence),
                           start_pos + Find("there is", sentence) + 8,
                           "there is", "there are", "high") >>
            ELSE << >>
    IN capitalization \o punctuation \o fragment \o run_on \o agreement

RECURSIVE AllSentenceChecks(_, _, _)
AllSentenceChecks(text, sentences, k) ==
    IF k > Len(sentences) THEN << >>
    ELSE (IF Strip(sentences[k]) = "" THEN << >>
          ELSE SentenceChecks(text, Strip(sentences[k])))
         \o AllSentenceChecks(text, sentences, k + 1)

RECURSIVE SpellingDiff(_, _, _, _)
\* "for i, (orig, corr) in enumerate(zip(original_words, corrected_words))"
SpellingDiff(text, ow, cw, k) ==
    IF k > Len(ow) \/ k > Len(cw) THEN << >>
    ELSE LET orig == ow[k]
             corr == cw[k]
             pos == Find(orig, StrLower(text))
         IN (IF orig # corr /\ pos # -1
             THEN << LexErr("spelling", "Possible spelling error: '" \o orig \o "'",
                            pos, pos + Len(orig), orig, corr, "medium") >>
             ELSE << >>)
            \o SpellingDiff(text, ow, cw, k + 1)

detect_grammar_errors(text) ==
    IF IsBlank(text) THEN << >>
    ELSE analyze_sentence_structure(text).errors
         \o common_mistakes(text)
         \o DoubleSpaces(text, 1)
         \o AllSentenceChecks(text, sent_tokenize(text), 1)
         \o (IF BlobCorrect(text) # text
             THEN SpellingDiff(text, word_tokenize(StrLower(text)),
                               word_tokenize(StrLower(BlobCorrect(text))), 1)
             ELSE << >>)

(***************************************************************************)
(* Collaborators: the external completion service and the correction model *)
(***************************************************************************)
\* What the completion service does in a deployment.
\*   not_installed : openai cannot be imported or no API key
\*   raises        : chat.completions.create raises (error, timeout)
\*   no_choices    : the response carries no choices
\*   echo, blank, recase, rewrite : the content of the first choice
AiBehaviours ==
    {"not_installed", "raises", "no_choices", "echo", "blank", "recase", "rewrite"}
AiReplying == {"echo", "blank", "recase", "rewrite"}

\* message.content of the first choice, before generate_ai_response strips it
AiContent(b, text) ==
    CASE b = "echo" -> " " \o text \o " "
      [] b = "blank" -> "   "
      [] b = "recase" -> UpperFirst(text)
      [] b = "rewrite" -> " My name is Nishanth. "

\* What the text2text model does in a deployment.
\*   absent   : transformers cannot be imported / the pipeline failed to load
\*   raises   : inference raises
\*   noresult : the pipeline returns an empty list
\*   hangs    : inference never returns
\*   echo, fix, lower, blank, halfup, short, empty : generated_text
ModelBehaviours ==
    {"absent", "raises", "noresult", "hangs", "echo", "fix", "lower", "blank", "halfup",
     "short", "empty"}
ModelReplying == {"echo", "fix", "lower", "blank", "halfup", "short", "empty"}

RECURSIVE Spaces(_)
Spaces(n) == IF n <= 0 THEN "" ELSE " " \o Spaces(n - 1)

ShortLen == 1

ModelText(b, text) ==
    CASE b = "echo" -> text
      [] b = "fix" -> Normalize(text)
      [] b = "lower" -> StrLower(text)
      [] b = "blank" -> Spaces(Len(text))
      [] b = "halfup" -> Prefix(text, (Len(text) + 1) \div 2)
      [] b = "short" -> Prefix(text, ShortLen)
      [] b = "empty" -> ""

AiSample == {"not_installed", "raises"}
ModelSample == {"absent", "lower"}

\* How load_grammar_model ends when transformers is importable
LoadOutcomes == {"pipeline", "manual", "fail"}

(***************************************************************************)
(* grammar_analysis.py: correct_grammar, stage by stage                    *)
(***************************************************************************)
\* AiAccepts with the comparison made case-insensitively, as in the change record
AiAccepts_CaseBlind(ai_corrected, text) ==
    /\ ai_corrected # "" /\ Strip(ai_corrected) # ""
    /\ StrLower(Strip(ai_corrected)) # StrLower(text)

\* AiAccepts without the comparison against the input
AiAccepts_NoCompare(ai_corrected, text) ==
    ai_corrected # "" /\ Strip(ai_corrected) # ""

\* "if ai_corrected and ai_corrected.strip() and ai_corrected.strip() != text"
\* (ai_corrected = "" stands for None as well: both are falsy)
AiAccepts(ai_corrected, text) ==
    ai_corrected # "" /\ Strip(ai_corrected) # "" /\ Strip(ai_corrected) # text

\* "if corrected_text.lower() != text.lower()": the change record of the AI stage
AiChanges(corrected_text, text) ==
    IF StrLower(corrected_text) # StrLower(text)
    THEN << [type |-> "ai_correction", original |-> text, corrected |-> corrected_text,
             message |-> "AI-enhanced grammar correction applied"] >>
    ELSE << >>

\* AiResultWith returning the text of the structure check instead of the reply
AiResultWith_StructureText(text, corrected_text, structure_check) ==
    [original |-> text, corrected |-> structure_check.corrected,
     changes |-> AiChanges(corrected_text, text) \o structure_check.changes,
     errors_found |-> Len(structure_check.structure_errors),
     method |-> "ai_enhanced"]

\* the dict returned when the AI stage commits
AiResultWith(text, corrected_text, structure_check) ==
    [original |-> text, corrected |-> corrected_text,
     changes |-> AiChanges(corrected_text, text) \o structure_check.changes,
     errors_found |-> Len(structure_check.structure_errors),
     method |-> "ai_enhanced"]

AiResult(text, ai_corrected) ==
    AiResultWith(text, Strip(ai_corrected), correct_sentence_structure(text))

\* "structure_was_corrected = corrected_text != text and len(changes) > 0"
StructureWasCorrected(structure_correction, text) ==
    structure_correction.corrected # text /\ Len(structure_correction.changes) > 0

\* the dict returned when the structural stage commits
StructuralResult(text, structure_correction) ==
    [original |-> text, corrected |-> structure_correction.corrected,
     changes |-> structure_correction.changes,
     errors_found |-> Len(structure_correction.structure_errors),
     method |-> "rule_based"]

SimpleReplacementTypes == {"spelling", "common_mistake", "subject_verb_agreement"}
StructureSuggestionTypes == {"word_order", "missing_words", "missing_subject", "missing_verb"}

Change(t, orig, corr, m) == [type |-> t, original |-> orig, corrected |-> corr, message |-> m]

RECURSIVE FragmentLoop(_, _, _, _)
\* "for error in sorted(errors, key=start, reverse=True)" of correct_grammar
FragmentLoop(errs, k, corrected_text, changes) ==
    IF k > Len(errs) THEN [corrected |-> corrected_text, changes |-> changes]
    ELSE
    LET error == errs[k]
        simple == /\ "correction" \in DOMAIN error
                  /\ error.correction # ""
                  /\ error.type \in SimpleReplacementTypes
                  /\ Contains(error.text, corrected_text)
        text1 == IF simple THEN Replace1(corrected_text, error.text, error.correction)
                 ELSE corrected_text
        changes1 == IF simple
                    THEN Append(changes, Change(error.type, error.text, error.correction,
                                                error.message))
                    ELSE changes
        rewrite == /\ error.type \in StructureSuggestionTypes
                   /\ "suggestion" \in DOMAIN error
                   /\ error.suggestion # ""
                   /\ "sentence" \in DOMAIN error
                   /\ error.sentence # ""
                   /\ Contains(error.sentence, text1)
                   /\ ~Contains("My name is", text1)
        text2 == IF rewrite
                 THEN EnsurePeriod(Replace1(text1, error.sentence, error.suggestion))
                 ELSE text1
        changes2 == IF rewrite
                    THEN Append(changes1, Change(error.type, error.sentence,
                                                 error.suggestion, error.message))
                    ELSE changes1
    IN FragmentLoop(errs, k + 1, text2, changes2)

\* T5Accepts with the factor 0.5 left out of the length guard
T5Accepts_FullLength(t5_corrected, text) ==
    t5_corrected # text /\ Len(t5_corrected) > Len(text)

\* "if t5_corrected != text and len(t5_corrected) > len(text) * 0.5"
T5Accepts(t5_corrected, text) ==
    t5_corrected # text /\ 2 * Len(t5_corrected) > Len(text)

\* "if not structure_was_corrected and (not changes or corrected_text == text)"
SpellFallbackApplies(structure_was_corrected, changes, corrected_text, text) ==
    ~structure_was_corrected /\ (changes = << >> \/ corrected_text = text)

RECURSIVE FixSentences(_, _)
\* the loop building fixed_sentences
FixSentences(sentences, k) ==
    IF k > Len(sentences) THEN << >>
    ELSE LET sentence == Strip(sentences[k])
             capped == IF ~IsUpperChar(Head(sentence)) THEN UpperFirst(sentence)
                       ELSE sentence
             ended == IF ~IsSentenceEnder(Char(capped, Len(capped))) THEN capped \o "."
                      ELSE capped
         IN (IF sentence # "" THEN << ended >> ELSE << >>)
            \o FixSentences(sentences, k + 1)

\* "Apply capitalization and punctuation fixes"
final_corrected(corrected_text) == Join(FixSentences(sent_tokenize(corrected_text), 1))

(***************************************************************************)
(* grammar_corrector.py: decisions of correct_text                         *)
(***************************************************************************)
\* "if corrected and corrected != original_text"
ModelAccepts(corrected, original_text) == corrected # "" /\ corrected # original_text

\* the rule-based fallback of correct_text: correct_sentence_structure, then
\* "Ensure proper formatting"
EnsureFormatting(corrected) == IF corrected # "" THEN Normalize(corrected) ELSE corrected

RuleBasedText(original_text) ==
    EnsureFormatting(correct_sentence_structure(original_text).corrected)

(***************************************************************************)
(* explanation_engine.py                                                   *)
(***************************************************************************)
\* behaviour of LanguageTool in this deployment: the package is missing, the
\* server does not start, check() raises, or check() returns these matches
ToolBehaviours ==
    {"not_installed", "load_fails", "raises", "silent", "typos", "grammar",
     "other", "many"}

Match(category, message, replacements) ==
    [category |-> category, message |-> message, replacements |-> replacements]

\* language_tool.check(original)
ToolMatches(b, original) ==
    IF b = "typos"
    THEN << Match("TYPOS", "Possible spelling mistake found.",
                  << "happy", "harpy", "hay", "hap" >>) >>
    ELSE IF b = "grammar"
    THEN << Match("GRAMMAR", "The verb does not agree with the subject.", << >>) >>
    ELSE IF b = "other"
    THEN << Match("PUNCTUATION", "Two consecutive dots", << "." >>) >>
    ELSE IF b = "many"
    THEN << Match("TYPOS", "Possible spelling mistake found.", << "happy", "harpy", "hay" >>),
            Match("TYPOS", "Possible spelling mistake found.", << "glad", "clad", "lad" >>),
            Match("TYPOS", "Possible spelling mistake found.", << "play", "pray", "clay" >>) >>
    ELSE << >>

\* lines 66-75: error_info of a match
ErrorInfo(match) ==
    [error |-> match.message, suggestions |-> Prefix(match.replacements, 3),
     category |-> match.category]

\* lines 76-81: the explanation of a match
ToolExplanation(match) ==
    [type |-> "language_tool", message |-> match.message,
     suggestions |-> Prefix(match.replacements, 3)]

\* generate_rule_based_explanations(original, corrected), for a corrected text
\* that has a first character
generate_rule_based_explanations(original, corrected) ==
    LET original_lower == StrLower(original)
        corrected_lower == StrLower(corrected)
        Exp(t, m) == << [type |-> t, message |-> m] >>
    IN (IF /\ Contains("my name is", corrected_lower) /\ Contains("i", original_lower)
           /\ Contains("name", original_lower)
           /\ ~Contains("my name is", original_lower)
        THEN Exp("word_order",
                 "Sentence structure corrected: English follows Subject-Verb-Object order.")
        ELSE << >>)
       \o (IF /\ Contains("i am a", corrected_lower) \/ Contains("i am an", corrected_lower)
              /\ ~Contains("i am a", original_lower) /\ ~Contains("i am an", original_lower)
           THEN Exp("missing_article", "Added article 'a' or 'an' before the noun.")
           ELSE << >>)
       \o (IF /\ Contains("to", corrected_lower) /\ ~Contains("to", original_lower)
              /\ \E verb \in {"like", "want", "need", "try"} : Contains(verb, original_lower)
           THEN Exp("missing_infinitive", "Added 'to' before the verb to form an infinitive.")
           ELSE << >>)
       \o (IF IsUpperChar(Head(corrected)) /\ IsLowerChar(Head(original))
           THEN Exp("capitalization", "Capitalized the first letter of the sentence.")
           ELSE << >>)
       \o (IF EndsWith(corrected, ".") /\ ~EndsWith(original, ".")
           THEN Exp("punctuation", "Added period at the end of the sentence.")
           ELSE << >>)

RECURSIVE JoinWith(_, _)
\* sep.join(parts)
JoinWith(parts, sep) ==
    IF parts = << >> THEN ""
    ELSE IF Len(parts) = 1 THEN parts[1]
    ELSE parts[1] \o sep \o JoinWith(Tail(parts), sep)

\* generate_correction_summary(original, corrected, errors)
generate_correction_summary(original, corrected, errors) ==
    IF errors = << >> /\ original = corrected
    THEN "Your sentence is grammatically correct."
    ELSE LET Counted(c) == \E i \in 1..Len(errors) : Contains(c, errors[i].category)
             Part(cond, m) == IF cond THEN << m >> ELSE << >>
             cl == StrLower(corrected)
             ol == StrLower(original)
             summary_parts ==
                 Part(Counted("GRAMMAR"), "Fixed grammatical errors")
                 \o Part(Counted("TYPOS"), "Corrected spelling mistakes")
                 \o Part(Counted("STYLE"), "Improved writing style")
                 \o Part(Contains("my name is", cl) /\ ~Contains("my name is", ol),
                         "Restructured sentence to follow English word order")
                 \o Part(Contains("to", cl) /\ ~Contains("to", ol),
                         "Added missing infinitive marker 'to'")
                 \o Part(/\ Contains(" a ", cl) \/ Contains(" an ", cl)
                         /\ ~(Contains(" a ", ol) \/ Contains(" an ", ol)),
                         "Added missing articles")
         IN IF summary_parts # << >> THEN JoinWith(summary_parts, " | ") \o "."
            ELSE "Rephrased to follow standard English syntax and subject-verb order."

RECURSIVE TwoOfEach(_)
\* lines 96-98: at most two suggestions of every explanation that has some
TwoOfEach(explanations) ==
    IF explanations = << >> THEN << >>
    ELSE LET exp == Head(explanations)
         IN (IF "suggestions" \in DOMAIN exp THEN Prefix(exp.suggestions, 2) ELSE << >>)
            \o TwoOfEach(Tail(explanations))

RECURSIVE Dedupe(_)
\* the distinct elements of l, each at its first place
Dedupe(l) ==
    IF l = << >> THEN << >>
    ELSE LET front == Dedupe(SubSeq(l, 1, Len(l) - 1))
         IN IF InSeq(l[Len(l)], front) THEN front ELSE Append(front, l[Len(l)])

RECURSIVE Reversed(_)
Reversed(l) == IF l = << >> THEN << >> ELSE Append(Reversed(Tail(l)), Head(l))

\* the string hash seeds a process can start with (PYTHONHASHSEED is random)
HashSeeds == {0, 1}

\* list(set(suggestions)): the elements in the order of their hashes under
\* the seed of the process
SetToList(suggestions, seed) ==
    IF seed = 0 THEN Dedupe(suggestions) ELSE Reversed(Dedupe(suggestions))

\* "[:5]": unique suggestions, max 5
KeptSuggestions(listed) == Prefix(listed, 5)

\* the summary chosen without looking at the texts
SummaryOf_AlwaysGenerated(original, corrected, errors) ==
    generate_correction_summary(original, corrected, errors)

\* lines 89-93
SummaryOf(original, corrected, errors) ==
    IF original # corrected THEN generate_correction_summary(original, corrected, errors)
    ELSE "Your sentence is grammatically correct."

IndexError == [raised |-> "IndexError"]

\* explain_correction(original, corrected), given the matches LanguageTool
\* returned (none when it is not used) and the hash seed of the process
explain_correction(original, corrected, matches, seed) ==
    IF IsBlank(original)
    THEN [summary |-> "No text provided.", explanations |-> << >>, errors |-> << >>,
          suggestions |-> << >>]
    ELSE IF corrected = "" THEN IndexError    \* corrected[0] at line 148
    ELSE LET errors == [i \in 1..Len(matches) |-> ErrorInfo(matches[i])]
             explanations == [i \in 1..Len(matches) |-> ToolExplanation(matches[i])]
                             \o generate_rule_based_explanations(original, corrected)
         IN [summary |-> SummaryOf(original, corrected, errors),
             explanations |-> explanations,
             errors |-> errors,
             suggestions |-> KeptSuggestions(SetToList(TwoOfEach(explanations), seed)),
             correction_applied |-> original # corrected]

(***************************************************************************)
(* State                                                                   *)
(***************************************************************************)
VARIABLES
    entry,        \* entry point of the running request
    text,         \* its argument
    use_ai,       \* correct_grammar(text, use_ai)
    use_model,    \* correct_text(text, use_model)
    aiEnv,        \* behaviour of the completion service in this deployment
    modelEnv,     \* behaviour of the correction model in this deployment
    loadEnv,      \* outcome of loading the model in load_grammar_model
    toolEnv,      \* behaviour of LanguageTool in this deployment
    parse,        \* sentence_structure.nlp and what it reads in a sentence
    hashSeed,     \* the string hash seed of the running process
    language_tool,     \* explanation_engine.language_tool is not None
    client,       \* ai_service.client is not None
    grammar_pipeline,  \* grammar_corrector.grammar_pipeline is not None
    grammar_model,     \* grammar_tokenizer and grammar_model are not None
    pc,           \* position of the request in its handler
    corrected_text,
    changes,
    errors,
    structure_was_corrected,
    result,       \* the returned dict once pc = "done"
    trace,        \* history: the stages consulted by this request, in order
    applied,      \* history: the stages that changed corrected_text, in order
    stageOutput,  \* history: the text produced by the last stage that changed it
    requests,     \* number of requests submitted so far
    kind,         \* how this request relates to the previous one
    prev,         \* the previous request and its result
    returned,     \* history: the requests answered so far, in order
    explanation,  \* what explain_correction gave the router for this request
    explained,    \* history: the previous explanation and its arguments
    log           \* history: what the initialisers of this process have printed

vars == << entry, text, use_ai, use_model, aiEnv, modelEnv, loadEnv, client,
           grammar_pipeline, grammar_model, pc, corrected_text, changes, errors,
           structure_was_corrected, result, trace, applied, stageOutput, requests,
           kind, prev, returned, log, toolEnv, hashSeed, language_tool,
           explanation, explained, parse >>

env == << aiEnv, modelEnv, loadEnv, toolEnv, parse >>
args == << entry, text, use_ai, use_model >>
globals == << client, grammar_pipeline, grammar_model, language_tool >>
locals == << corrected_text, changes, errors, structure_was_corrected >>
chain == << requests, kind, prev, returned, hashSeed, explanation, explained >>

MaxRequests == 2

Pending == [pending |-> TRUE]

Inputs ==
    {"", "   ", "I am happy.", "i am happy.", "I am hapy.", "I am glad.",
     "i nishanth name", "I like to play.", "i like play", "I could of gone.",
     "I can close then lose.", "i like name", "I like play football.",
     "I am student.", "There is books."}

TRANSFORMERS_AVAILABLE == modelEnv # "absent"
OPENAI_AVAILABLE == aiEnv # "not_installed"
\* grammar_analysis.corrector: the module-level pipeline, None when it did not load
corrector == modelEnv # "absent"

\* texts given to analyze_sentence_structure directly
AnalyzerInputs ==
    {"i like play", "play football", "I am interested music.", "please play football",
     "i nishanth name", "I am happy.", "We are glad", "i like play. we are glad",
     "I want go home.", "We are glad. i like play"}

Init ==
    /\ entry \in {"correct_grammar", "correct_text", "analyze_sentence_structure"}
    /\ text \in IF entry = "analyze_sentence_structure" THEN AnalyzerInputs ELSE Inputs
    /\ parse \in Parses
    \* the pipelines are followed in a deployment without the parser; a reading
    \* of the parser describes one sentence
    /\ entry # "analyze_sentence_structure" => parse = NoParser
    /\ parse.nlp => Len(sent_tokenize(text)) = 1
    /\ use_ai \in BOOLEAN
    /\ use_model \in BOOLEAN
    /\ aiEnv \in AiBehaviours
    /\ modelEnv \in ModelBehaviours
    /\ loadEnv \in LoadOutcomes
    \* arguments and collaborators the entry point never reads are fixed
    /\ entry = "correct_grammar" => use_model /\ loadEnv = "pipeline"
    /\ entry = "correct_text" => ~use_ai /\ aiEnv = "not_installed"
    /\ entry = "analyze_sentence_structure"
          => ~use_ai /\ ~use_model /\ loadEnv = "pipeline"
    /\ ~use_ai => aiEnv = "not_installed"
    /\ ~use_model => modelEnv = "absent"
    /\ modelEnv = "absent" => loadEnv = "pipeline"
    \* the collaborators are varied one at a time against a sample of the other
    /\ aiEnv \in AiSample \/ modelEnv \in ModelSample
    /\ loadEnv = "pipeline" \/ modelEnv \in ModelSample
    /\ toolEnv \in ToolBehaviours
    \* LanguageTool is only read behind the /correct route: correct_text(use_model=True)
    /\ toolEnv # "not_installed"
          => /\ entry = "correct_text" /\ use_model
             /\ modelEnv \in ModelSample /\ loadEnv = "pipeline"
    /\ hashSeed \in HashSeeds
    \* the seed is only read when a set of suggestions is listed
    /\ toolEnv \notin {"typos", "many"} => hashSeed = 0
    /\ language_tool = FALSE
    /\ explanation = Pending
    /\ explained = Pending
    /\ client = FALSE
    /\ grammar_pipeline = FALSE
    /\ grammar_model = FALSE
    /\ pc = "start"
    /\ corrected_text = text
    /\ changes = << >>
    /\ errors = << >>
    /\ structure_was_corrected = FALSE
    /\ result = Pending
    /\ trace = << >>
    /\ applied = << >>
    /\ stageOutput = text
    /\ requests = 1
    /\ kind = "first"
    /\ prev = Pending
    /\ returned = << >>
    /\ log = << >>

\* Handled leaving the exception to the caller
Handled_Reraise(raised, continue_at) == IF raised THEN "raised" ELSE continue_at

\* "except Exception as e: print(...)" around an optional stage: where the
\* request goes on after the try block, whether or not the stage raised
Handled(raised, continue_at) == continue_at

Return(r) == /\ result' = r
             /\ pc' = "done"

(***************************************************************************)
(* correct_grammar                                                         *)
(***************************************************************************)
\* lines 253-261: the empty-input return, else on to the first stage
CG_Start ==
    /\ entry = "correct_grammar" /\ pc = "start"
    /\ IF IsBlank(text)
       THEN Return([original |-> text, corrected |-> text, changes |-> << >>])
       ELSE /\ pc' = IF use_ai THEN "ai" ELSE "structure"
            /\ UNCHANGED result
    /\ UNCHANGED << args, env, globals, log, locals, trace, applied, stageOutput, chain >>

\* get_client: the client exists after the call iff it existed or is created
ClientAfter == client \/ OPENAI_AVAILABLE

\* is_ai_available()
is_ai_available == OPENAI_AVAILABLE /\ ClientAfter

\* generate_ai_response(prompt, ...): "" stands for None
generate_ai_response(prompt_text) ==
    IF ~ClientAfter THEN ""
    ELSE IF aiEnv \in AiReplying THEN Strip(AiContent(aiEnv, prompt_text))
    ELSE ""

\* lines 260-306: the AI-enhanced stage
CG_AiStage ==
    /\ entry = "correct_grammar" /\ pc = "ai"
    /\ client' = ClientAfter
    /\ log' = IF ~client /\ ClientAfter THEN Append(log, "client_initialized") ELSE log
    /\ trace' = Append(trace, "ai")
    /\ LET ai_corrected == IF is_ai_available THEN generate_ai_response(text) ELSE ""
       IN IF is_ai_available /\ AiAccepts(ai_corrected, text)
          THEN /\ Return(AiResult(text, ai_corrected))
               /\ corrected_text' = Strip(ai_corrected)
               /\ applied' = Append(applied, "ai")
               /\ stageOutput' = Strip(ai_corrected)
          ELSE /\ pc' = Handled(aiEnv \in {"not_installed", "raises"}, "structure")
               /\ UNCHANGED << result, corrected_text, applied, stageOutput >>
    /\ UNCHANGED << args, env, grammar_pipeline, grammar_model, language_tool, changes, errors,
                    structure_was_corrected, chain >>

\* lines 311-327, given the result of correct_sentence_structure(text)
StructuralOutcome(structure_correction) ==
    /\ corrected_text' = structure_correction.corrected
    /\ changes' = structure_correction.changes
    /\ structure_was_corrected' = StructureWasCorrected(structure_correction, text)
    /\ IF StructureWasCorrected(structure_correction, text)
       THEN /\ Return(StructuralResult(text, structure_correction))
            /\ applied' = Append(applied, "structural")
            /\ stageOutput' = structure_correction.corrected
       ELSE /\ pc' = "fragments"
            /\ UNCHANGED << result, applied, stageOutput >>

\* lines 308-327: the structural stage
CG_StructuralStage ==
    /\ entry = "correct_grammar" /\ pc = "structure"
    /\ trace' = Append(trace, "structural")
    /\ StructuralOutcome(correct_sentence_structure(text))
    /\ UNCHANGED << args, env, globals, log, errors, chain >>

\* lines 335-366, given the outcome of the substitution loop
FragmentOutcome(r) ==
    /\ corrected_text' = r.corrected
    /\ changes' = r.changes
    /\ applied' = IF r.corrected # corrected_text THEN Append(applied, "fragments")
                  ELSE applied
    /\ stageOutput' = IF r.corrected # corrected_text THEN r.corrected ELSE stageOutput

\* lines 331-366, given the findings of detect_grammar_errors(text)
FragmentDetected(found) ==
    /\ errors' = found
    /\ FragmentOutcome(FragmentLoop(SortByStartDesc(found), 1, corrected_text, changes))

\* lines 329-366: detection and the fragment substitutions
CG_FragmentStage ==
    /\ entry = "correct_grammar" /\ pc = "fragments"
    /\ trace' = Append(trace, "fragments")
    /\ FragmentDetected(detect_grammar_errors(text))
    /\ pc' = "model"
    /\ UNCHANGED << args, env, globals, log, structure_was_corrected, result, chain >>

\* The request is inside an inference call that does not return:
\* corrector(prompt, ...), grammar_pipeline(...) and grammar_model.generate(...)
\* are called without a timeout, so nothing ends the wait.
BlockedOnModel ==
    /\ pc = "model" /\ modelEnv = "hangs"
    /\ entry = "correct_grammar" => corrector /\ corrected_text = text

\* lines 368-384: the T5 stage
CG_ModelStage ==
    /\ entry = "correct_grammar" /\ pc = "model"
    /\ ~BlockedOnModel
    /\ LET consulted == corrector /\ corrected_text = text
           t5_corrected == ModelText(modelEnv, text)
           accepted == consulted /\ modelEnv \in ModelReplying /\ T5Accepts(t5_corrected, text)
       IN /\ trace' = IF consulted THEN Append(trace, "model") ELSE trace
          /\ corrected_text' = IF accepted THEN t5_corrected ELSE corrected_text
          /\ changes' = IF accepted
                        THEN Append(changes, Change("auto_correction", text, t5_corrected,
                                                    "AI-powered grammar correction"))
                        ELSE changes
          /\ applied' = IF accepted THEN Append(applied, "model") ELSE applied
          /\ stageOutput' = IF accepted THEN t5_corrected ELSE stageOutput
          /\ pc' = Handled(consulted /\ modelEnv = "raises", "spell")
    /\ UNCHANGED << args, env, globals, log, errors, structure_was_corrected, result, chain >>

\* lines 386-399: the TextBlob fallback
CG_SpellFallback ==
    /\ entry = "correct_grammar" /\ pc = "spell"
    /\ LET consulted == SpellFallbackApplies(structure_was_corrected, changes,
                                             corrected_text, text)
           blob_corrected == BlobCorrect(text)
           accepted == consulted /\ blob_corrected # text
       IN /\ trace' = IF consulted THEN Append(trace, "spell") ELSE trace
          /\ corrected_text' = IF accepted THEN blob_corrected ELSE corrected_text
          /\ changes' = IF accepted
                        THEN Append(changes, Change("textblob_correction", text,
                                                    blob_corrected,
                                                    "Spell and grammar correction"))
                        ELSE changes
          /\ applied' = IF accepted THEN Append(applied, "spell") ELSE applied
          /\ stageOutput' = IF accepted THEN blob_corrected ELSE stageOutput
    /\ pc' = "format"
    /\ UNCHANGED << args, env, globals, log, errors, structure_was_corrected, result, chain >>

\* lines 401-432: capitalization / punctuation fixes and the final return
CG_Normalize ==
    /\ entry = "correct_grammar" /\ pc = "format"
    /\ trace' = IF ~structure_was_corrected THEN Append(trace, "normalize") ELSE trace
    /\ LET fixed == final_corrected(corrected_text)
           differs == ~structure_was_corrected /\ fixed # corrected_text
           out == IF differs THEN fixed ELSE corrected_text
           chg == IF differs
                  THEN Append(changes, Change("formatting", corrected_text, fixed,
                                              "Capitalization and punctuation fixes"))
                  ELSE changes
       IN /\ corrected_text' = out
          /\ changes' = chg
          /\ applied' = IF differs THEN Append(applied, "normalize") ELSE applied
          /\ UNCHANGED stageOutput
          /\ Return([original |-> text, corrected |-> out, changes |-> chg,
                     errors_found |-> Len(errors)])
    /\ UNCHANGED << args, env, globals, log, errors, structure_was_corrected, chain >>

(***************************************************************************)
(* correct_text and load_grammar_model                                     *)
(***************************************************************************)
original_text == Strip(text)

\* lines 65-75: the empty-input return, else on to the model or the rules
CT_Start ==
    /\ entry = "correct_text" /\ pc = "start"
    /\ IF IsBlank(text)
       THEN Return([original |-> text, corrected |-> text, method |-> "none"])
       ELSE /\ pc' = IF use_model /\ TRANSFORMERS_AVAILABLE THEN "load" ELSE "rules"
            /\ UNCHANGED result
    /\ UNCHANGED << args, env, globals, log, locals, trace, applied, stageOutput, chain >>

\* load_grammar_model answering True only on the call that loads
LoadReturns_FirstUseOnly(loaded, outcome) == ~loaded /\ outcome # "fail"

\* the value load_grammar_model() returns: True when the pipeline is already
\* there or either way of loading succeeds, False when both fail
LoadReturns(loaded, outcome) == loaded \/ outcome # "fail"

\* load_grammar_model(), called at line 76: what it assigns and prints
CT_Load ==
    /\ entry = "correct_text" /\ pc = "load"
    /\ pc' = IF LoadReturns(grammar_pipeline, loadEnv) THEN "model"
             ELSE Handled(~grammar_pipeline, "rules")
    /\ IF grammar_pipeline
       THEN UNCHANGED << grammar_pipeline, grammar_model, log >>
       ELSE IF loadEnv = "pipeline"
       THEN /\ grammar_pipeline' = TRUE
            /\ log' = Append(log, "pipeline_loaded")
            /\ UNCHANGED grammar_model
       ELSE IF loadEnv = "manual"
       THEN /\ grammar_model' = TRUE
            /\ log' = log \o << "pipeline_failed", "manual_loaded" >>
            /\ UNCHANGED grammar_pipeline
       ELSE /\ log' = log \o << "pipeline_failed", "manual_failed" >>
            /\ UNCHANGED << grammar_pipeline, grammar_model >>
    /\ UNCHANGED << args, env, client, language_tool, locals, result, trace, applied,
                    stageOutput, chain >>

\* lines 77-120: inference through the pipeline or the manually loaded model
CT_Model ==
    /\ entry = "correct_text" /\ pc = "model"
    /\ ~BlockedOnModel
    /\ trace' = Append(trace, "model")
    /\ LET corrected == ModelText(modelEnv, original_text)
           accepted == /\ grammar_pipeline \/ grammar_model
                       /\ modelEnv \in ModelReplying
                       /\ ModelAccepts(corrected, original_text)
       IN IF accepted
          THEN /\ Return([original |-> original_text, corrected |-> Strip(corrected),
                          method |-> "t5_model"])
               /\ corrected_text' = Strip(corrected)
               /\ applied' = Append(applied, "model")
               /\ stageOutput' = Strip(corrected)
          ELSE /\ pc' = Handled(modelEnv = "raises", "rules")
               /\ UNCHANGED << result, corrected_text, applied, stageOutput >>
    /\ UNCHANGED << args, env, globals, log, changes, errors, structure_was_corrected, chain >>

\* lines 136-152, given the formatted text of the rule-based correction
RulesOutcome(corrected) ==
    IF corrected # "" /\ corrected # original_text
    THEN /\ Return([original |-> original_text, corrected |-> corrected,
                    method |-> "rule_based"])
         /\ corrected_text' = corrected
         /\ applied' = Append(applied, "structural")
         /\ stageOutput' = corrected
    ELSE /\ Return([original |-> original_text, corrected |-> original_text,
                    method |-> "none"])
         /\ corrected_text' = original_text
         /\ UNCHANGED << applied, stageOutput >>

\* lines 122-152: the rule-based fallback and the final return
CT_Rules ==
    /\ entry = "correct_text" /\ pc = "rules"
    /\ trace' = Append(trace, "structural")
    /\ RulesOutcome(RuleBasedText(original_text))
    /\ UNCHANGED << args, env, globals, log, changes, errors, structure_was_corrected, chain >>

(***************************************************************************)
(* The caller: further requests in the same process                        *)
(***************************************************************************)
Finished ==
    [entry |-> entry, text |-> text, use_ai |-> use_ai, result |-> result,
     trace |-> trace, applied |-> applied]

NewRequest(t) ==
    /\ text' = t
    /\ pc' = "start"
    /\ corrected_text' = t
    /\ changes' = << >>
    /\ errors' = << >>
    /\ structure_was_corrected' = FALSE
    /\ result' = Pending
    /\ trace' = << >>
    /\ applied' = << >>
    /\ stageOutput' = t
    /\ requests' = requests + 1
    /\ prev' = Finished
    /\ returned' = Append(returned, Finished)
    /\ explanation' = Pending

\* the longest text the caller feeds back
MaxTextLen == 60

\* the caller feeds the corrected text back into the same entry point
Resubmit ==
    /\ pc = "done" /\ requests < MaxRequests
    /\ Len(result.corrected) <= MaxTextLen
    /\ explanation = Pending
    /\ NewRequest(result.corrected)
    /\ kind' = "resubmit"
    /\ UNCHANGED << entry, use_ai, use_model, env, globals, log, hashSeed, explained >>

\* the caller repeats the request with AI enhancement switched off
RerunWithoutAi ==
    /\ pc = "done" /\ requests < MaxRequests
    /\ entry = "correct_grammar" /\ use_ai
    /\ NewRequest(text)
    /\ use_ai' = FALSE
    /\ kind' = "rerun_noai"
    /\ UNCHANGED << entry, use_model, env, globals, log, hashSeed, explained >>

\* the texts correct_batch is handed after the first one
BatchItems == {"", "I am happy.", "i like play"}

\* correct_batch: the list comprehension calls correct_text(text) on the next
\* element once the call on the previous element has returned
CB_NextItem ==
    /\ pc = "done" /\ requests < MaxRequests
    /\ entry = "correct_text" /\ use_model
    /\ kind \in {"first", "batch"}
    /\ explanation = Pending
    /\ \E t \in BatchItems : NewRequest(t)
    /\ kind' = "batch"
    /\ UNCHANGED << entry, use_ai, use_model, env, globals, log, hashSeed, explained >>

(***************************************************************************)
(* routers/corrector.py: the /correct route                                *)
(***************************************************************************)
LANGUAGE_TOOL_AVAILABLE == toolEnv # "not_installed"

\* load_language_tool(): the instance exists after the call
ToolAfter == LANGUAGE_TOOL_AVAILABLE /\ (language_tool \/ toolEnv # "load_fails")

\* lines 62-83: the matches explain_correction reads, none when LanguageTool
\* is missing, does not load or raises in check()
MatchesRead ==
    IF ToolAfter /\ toolEnv # "raises" THEN ToolMatches(toolEnv, original_text) ELSE << >>

\* step 3 of grammar_correction: explain_correction(original_text, corrected_text)
\* on the result of correct_text(original_text, use_model=True)
Explain ==
    /\ pc = "done" /\ explanation = Pending
    /\ entry = "correct_text" /\ use_model /\ ~IsBlank(text)
    /\ kind \in {"first", "again"}
    /\ explanation' = explain_correction(original_text, result.corrected, MatchesRead, hashSeed)
    /\ language_tool' = ToolAfter
    /\ log' = IF ~language_tool /\ ToolAfter THEN Append(log, "language_tool_loaded") ELSE log
    /\ UNCHANGED << args, env, client, grammar_pipeline, grammar_model, pc, locals, result,
                    trace, applied, stageOutput, requests, kind, prev, returned, hashSeed,
                    explained >>

\* the route is called again with the same text, by the same process or,
\* after a restart, by a new one whose globals are unset and whose hash seed
\* is drawn afresh
RouterAgain ==
    /\ pc = "done" /\ explanation # Pending /\ requests < MaxRequests
    /\ NewRequest(text)
    /\ kind' = "again"
    /\ explained' = [original |-> original_text, corrected |-> result.corrected,
                     bundle |-> explanation]
    /\ \E restart \in BOOLEAN :
          IF restart
          THEN /\ client' = FALSE /\ grammar_pipeline' = FALSE /\ grammar_model' = FALSE
               /\ language_tool' = FALSE
               /\ log' = << >>
               /\ hashSeed' \in HashSeeds
          ELSE UNCHANGED << globals, log, hashSeed >>
    /\ UNCHANGED << entry, use_ai, use_model, env >>

\* analyze_sentence_structure(text) called on its own
AS_Analyze ==
    /\ entry = "analyze_sentence_structure" /\ pc = "start"
    /\ result' = AnalyzeWith(parse, text)
    /\ pc' = "analyzed"
    /\ UNCHANGED << args, env, globals, corrected_text, changes, errors,
                    structure_was_corrected, trace, applied, stageOutput, chain, log >>

Next ==
    \/ AS_Analyze
    \/ CG_Start
    \/ CG_AiStage
    \/ CG_StructuralStage
    \/ CG_FragmentStage
    \/ CG_ModelStage
    \/ CG_SpellFallback
    \/ CG_Normalize
    \/ CT_Start
    \/ CT_Load
    \/ CT_Model
    \/ CT_Rules
    \/ CB_NextItem
    \/ Explain
    \/ RouterAgain
    \/ Resubmit
    \/ RerunWithoutAi

Spec == Init /\ [][Next]_vars

Done == pc = "done"

(***************************************************************************)
(* Properties of the correction pipeline                                   *)
(***************************************************************************)
HasMethod(r, m) == "method" \in DOMAIN r /\ r.method = m

\* what generate_ai_response hands back for this request's text
AiReply == Strip(AiContent(aiEnv, text))

\* the collaborator answered with non-empty text that differs from the input
AiOffersCorrection == aiEnv \in AiReplying /\ AiReply # "" /\ AiReply # text

\* C1: in correct_grammar with use_ai enabled, when the collaborator is
\* available and answers a non-blank text with non-empty, trimmed output that
\* differs from the input, the result's corrected text is exactly that trimmed
\* output and its method is ai_enhanced, whatever the later stages would do.
C1_AiCommits ==
    (Done /\ entry = "correct_grammar" /\ use_ai /\ ~IsBlank(text) /\ AiOffersCorrection)
        => result.corrected = AiReply /\ HasMethod(result, "ai_enhanced")

C1_Witness ==
    /\ Done /\ entry = "correct_grammar" /\ use_ai
    /\ text = "i like play" /\ aiEnv = "rewrite"
    /\ result.corrected = "My name is Nishanth."
    /\ trace = << "ai" >>

\* C2: for a non-blank input, when the collaborator is not installed, raises,
\* returns no choice, returns whitespace only or returns the input itself, the
\* call with use_ai = TRUE returns exactly the dict that the call with
\* use_ai = FALSE returns for the same text in the same deployment.
C2_AiFailureIsTransparent ==
    (Done /\ kind = "rerun_noai" /\ ~IsBlank(text) /\ ~AiOffersCorrection)
        => /\ prev.use_ai /\ ~use_ai /\ prev.text = text
           /\ prev.result = result

C2_Witness ==
    /\ Done /\ kind = "rerun_noai"
    /\ text = "i like play" /\ aiEnv = "raises"
    /\ prev.trace = << "ai", "structural" >>
    /\ prev.result = result
    /\ result.corrected = "I like to play."

RECURSIVE SubsequenceOf(_, _)
\* s can be obtained from t by deleting elements
SubsequenceOf(s, t) ==
    IF s = << >> THEN TRUE
    ELSE IF t = << >> THEN FALSE
    ELSE IF Head(s) = Head(t) THEN SubsequenceOf(Tail(s), Tail(t))
    ELSE SubsequenceOf(s, Tail(t))

\* the output of the correction model for this request, as each entry point asks
ModelReply == ModelText(modelEnv, IF entry = "correct_text" THEN original_text ELSE text)

\* the order of the stages as the claims name them: AI-enhanced, structural,
\* model-based, rule-based composite (fragments, spelling, normalisation)
ClaimedOrder == << "ai", "structural", "model", "fragments", "spell", "normalize" >>

\* the order in which correct_grammar consults its stages
GrammarOrder == << "ai", "structural", "fragments", "model", "spell", "normalize" >>

\* the order in which correct_text consults its stages
TextOrder == << "model", "structural" >>

\* the AI and structural stages declined, a model is loaded and its output
\* differs from the input and is at least half as long
ModelWouldCommit ==
    /\ entry = "correct_grammar" /\ ~IsBlank(text)
    /\ ~InSeq("ai", applied) /\ ~InSeq("structural", applied)
    /\ corrector /\ modelEnv \in ModelReplying
    /\ ModelReply # text /\ 2 * Len(ModelReply) >= Len(text)

NonCompositeCommitted ==
    InSeq("ai", applied) \/ InSeq("structural", applied) \/ InSeq("model", applied)

MethodTags == {"ai_enhanced", "structural", "model_based", "rule_based", "none"}

\* the tag that names the stage whose output a finished request returns
CommittingStage ==
    IF InSeq("ai", applied) THEN "ai_enhanced"
    ELSE IF InSeq("structural", applied) /\ entry = "correct_grammar" THEN "structural"
    ELSE IF InSeq("model", applied) THEN "model_based"
    ELSE IF applied # << >> THEN "rule_based"
    ELSE "none"

\* C5: every result of correct_grammar and correct_text carries exactly one
\* method tag out of ai_enhanced, structural, model_based, rule_based, none, and
\* the tag names the stage whose output is returned as corrected.
C5_MethodTag ==
    Done => /\ "method" \in DOMAIN result
            /\ result.method \in MethodTags
            /\ result.method = CommittingStage

\* C6: in every result of correct_grammar, and in the outcome of
\* correct_sentence_structure that its structural stage works on, the change
\* list is empty if and only if corrected equals original.
C6_ChangesIffDiffers ==
    /\ (Done /\ entry = "correct_grammar")
          => (result.changes = << >> <=> result.corrected = result.original)
    /\ (entry = "correct_grammar" /\ pc = "fragments")
          => (changes = << >> <=> corrected_text = text)

\* C7: whenever original has a non-whitespace character, the corrected text
\* returned by correct_text and correct_grammar is non-empty, whatever the
\* collaborator and the correction model return.
C7_CorrectedNonEmpty ==
    (Done /\ ~IsBlank(result.original)) => result.corrected # ""

\* C8: for empty or whitespace-only text, correct_text and correct_grammar
\* consult no stage and no collaborator and return original = corrected = the
\* input exactly as given with method none.
C8_BlankInput ==
    (Done /\ IsBlank(text))
        => /\ trace = << >> /\ ~client /\ ~grammar_pipeline /\ ~grammar_model
           /\ result.original = text /\ result.corrected = text
           /\ HasMethod(result, "none")

\* C9: correction is idempotent: a corrected text fed back into the same entry
\* point under the same collaborator configuration is returned unchanged.
C9_Idempotent ==
    (Done /\ kind = "resubmit") => result.corrected = prev.result.corrected

\* C10: in correct_grammar and in correct_text, the model stage accepts the
\* model's output if and only if it differs from the input and its length is at
\* least 50% of the input's length, the boundary included.
C10_HalfLengthGuard ==
    InSeq("model", trace)
        => (InSeq("model", applied)
              <=> /\ modelEnv \in ModelReplying
                  /\ ModelReply # (IF entry = "correct_text" THEN original_text ELSE text)
                  /\ 2 * Len(ModelReply) >= Len(IF entry = "correct_text"
                                                THEN original_text ELSE text))

\* the findings that the substitution loop of correct_grammar replaces
IsSpanFinding(e) ==
    /\ "correction" \in DOMAIN e /\ e.correction # ""
    /\ e.type \in SimpleReplacementTypes

SpanFindings(errs) == SelectSeq(errs, IsSpanFinding)

\* the findings that the loop turns into whole-sentence rewrites
IsRewriteFinding(e) == e.type \in StructureSuggestionTypes

\* every finding lies inside s and any two findings have disjoint spans
SpansDisjoint(s, fs) ==
    /\ \A i \in 1..Len(fs) : 0 <= fs[i].start /\ fs[i].start < fs[i].end
                             /\ fs[i].end <= Len(s)
    /\ \A i, j \in 1..Len(fs) :
          i # j => fs[i].end <= fs[j].start \/ fs[j].end <= fs[i].start

RECURSIVE SpanSubstitute(_, _, _)
\* s with the span [start, end) of each finding replaced by the finding's
\* correction; fs is in descending order of start, so the offsets of the
\* findings still to be applied stay valid
SpanSubstitute(s, fs, k) ==
    IF k > Len(fs) THEN s
    ELSE SpanSubstitute(SubSeq(s, 1, fs[k].start) \o fs[k].correction
                            \o SubSeq(s, fs[k].end + 1, Len(s)),
                        fs, k + 1)

\* C11: in the fragment substitutions of correct_grammar the findings are
\* applied in descending start offset and each replaces exactly the characters
\* of its own span, once: when the spans are disjoint, the text after the loop
\* is the input with every span holding its own correction and everything
\* outside the spans unchanged.
C11_SpanSubstitution ==
    (entry = "correct_grammar" /\ pc = "model"
        /\ SelectSeq(errors, IsRewriteFinding) = << >>
        /\ SpansDisjoint(text, SpanFindings(errors)))
      => corrected_text = SpanSubstitute(text, SortByStartDesc(SpanFindings(errors)), 1)

\* the collaborator is unavailable or raises
AiFails == aiEnv \in {"not_installed", "raises"}

\* the correction model is not installed, fails to load or raises in inference
ModelFails ==
    \/ modelEnv \in {"absent", "raises"}
    \/ entry = "correct_text" /\ loadEnv = "fail"

\* C12: for every non-blank input and every combination of collaborator
\* failures (collaborator unavailable or raising, model not installed, model
\* load failing, inference raising), correct_text and correct_grammar return
\* a result produced by the remaining stages and no exception reaches the
\* caller.
C12_FailuresAreContained ==
    /\ pc # "raised"
    /\ (Done /\ ~IsBlank(text))
          => /\ {"original", "corrected"} \subseteq DOMAIN result
             /\ (use_ai /\ AiFails) => ~InSeq("ai", applied)
             /\ ModelFails => ~InSeq("model", applied)
             /\ (entry = "correct_text" /\ ModelFails)
                   => /\ result.method \in {"rule_based", "none"}
                      /\ result.corrected \in {RuleBasedText(original_text), original_text}

C12_Witness ==
    /\ Done /\ entry = "correct_grammar" /\ use_ai
    /\ aiEnv = "raises" /\ modelEnv = "raises"
    /\ text = "I am glad."
    /\ trace = << "ai", "structural", "fragments", "model", "spell", "normalize" >>
    /\ result.corrected = "I am glad."

\* C13: every request eventually returns: a collaborator or a model that
\* never responds is cut off by a timeout and counts as a declined stage, so
\* no request is ever left waiting inside a call that does not return.
C13_EveryRequestReturns == ~BlockedOnModel

\* how often line x was printed by the initialisers of this process
Printed(x) == Len(SelectSeq(log, LAMBDA e : e = x))

\* executions of the pipeline(...) load at lines 35-39: each prints one line
LoadExecutions == Printed("pipeline_loaded") + Printed("pipeline_failed")

\* C14: the load of the correction model and the creation of the completion
\* client are each executed by at most one caller in a process; every other
\* caller reuses the result or goes on without the model
C14_SingleFlight ==
    /\ LoadExecutions <= 1
    /\ Printed("client_initialized") <= 1

\* C15: a load of the correction model that fails is recovered by the
\* rule-based fallback, and it is attempted and logged at most once in a
\* process: later correct_text requests neither load nor log again
C15_LoadFailureOnce ==
    /\ Printed("manual_failed") <= 1
    /\ Printed("manual_failed") = 1 => Printed("pipeline_failed") = 1
    /\ (Done /\ entry = "correct_text" /\ InSeq("manual_failed", log) /\ ~IsBlank(text))
          => result.method \in {"rule_based", "none"}

NameForm(t) ==
    LET w == Split(t)
    IN Len(w) = 3 /\ w[1] = "i" /\ IsWord(w[2]) /\ w[3] = "name"

AlreadyCorrect == {"I am happy.", "I am glad.", "I like to play."}

\* C18: an input that is already correct is answered with corrected equal to
\* the input, an empty change list and method none
C18_NoOp ==
    (/\ Done /\ kind = "first" /\ entry = "correct_grammar"
     /\ text \in AlreadyCorrect /\ AiFails /\ modelEnv = "absent")
       => /\ result.corrected = text
          /\ result.changes = << >>
          /\ HasMethod(result, "none")

\* text is 'I <catenative verb> <bare verb> <word>.'
InfinitiveForm(t) ==
    LET w == Split(t)
    IN /\ Len(w) = 4 /\ w[1] = "I"
       /\ InSeq(w[2], infinitive_verbs) /\ InSeq(w[3], common_verbs)
       /\ EndsWith(w[4], ".") /\ IsWord(SubSeq(w[4], 1, Len(w[4]) - 1))

\* the types of the findings of the structural analyzer for t
FindingTypes(t) ==
    LET found == correct_sentence_structure(t).structure_errors
    IN {found[i].type : i \in 1..Len(found)}

\* C19: for 'I <catenative verb> <bare verb> <word>.' a missing_infinitive
\* finding is produced and the sentence is returned with 'to' inserted after
\* the catenative verb, every other word and its casing as typed
C19_MissingInfinitive ==
    (/\ Done /\ kind = "first" /\ InfinitiveForm(text)
     /\ AiFails /\ modelEnv = "absent")
       => /\ "missing_infinitive" \in FindingTypes(text)
          /\ LET w == Split(text)
             IN result.corrected = Join(<< w[1], w[2], "to", w[3], w[4] >>)

\* the nouns of Inputs that follow 'I am'
Nouns == {"student"}

\* text is 'I am <noun>.'
ArticleForm(t) == \E n \in Nouns : t = "I am " \o n \o "."

\* the suggestions of the missing_article findings for t
ArticleSuggestions(t) ==
    LET found == correct_sentence_structure(t).structure_errors
    IN {found[i].suggestion : i \in {j \in 1..Len(found) : found[j].type = "missing_article"}}

\* C20: for 'I am <noun>.' a missing_article finding is produced whose
\* suggestion is the article and the noun, 'an' before a vowel, and the
\* corrected output inserts only the article
C20_MissingArticle ==
    (/\ Done /\ kind = "first" /\ ArticleForm(text)
     /\ AiFails /\ modelEnv = "absent")
       => \E n \in Nouns :
             LET article == IF IsVowel(Head(n)) THEN "an" ELSE "a"
             IN /\ text = "I am " \o n \o "."
                /\ ArticleSuggestions(text) = {article \o " " \o n}
                /\ result.corrected = "I am " \o article \o " " \o n \o "."

\* the route has explained this request
Explained == pc = "done" /\ explanation \notin {Pending, IndexError}

\* C21: two calls of explain_correction with the same original and corrected
\* text return the same bundle: summary, explanations, errors and the list of
\* suggestions with its order and its choice of at most five
C21_ExplanationDeterministic ==
    (/\ Explained /\ kind = "again"
     /\ explained.original = original_text /\ explained.corrected = result.corrected)
       => explanation = explained.bundle

C23_SpansLocateFragments ==
    \A i \in 1..Len(errors) :
       "start" \in DOMAIN errors[i]
          => /\ 0 <= errors[i].start /\ errors[i].start <= errors[i].end
             /\ errors[i].end <= Len(text)
             /\ SubSeq(text, errors[i].start + 1, errors[i].end) = errors[i].text

\* c is advice to the writer, not wording that can stand in the text
IsAdvice(c) ==
    \/ StartsWith(c, "Use ") \/ StartsWith(c, "Add ")
    \/ StartsWith(c, "Complete ") \/ StartsWith(c, "Break ")

\* C24: every spelling, common_mistake and subject_verb_agreement finding that
\* the fragment substitutions apply carries the corrected wording of its
\* fragment, never advice: 'could of' is replaced by 'could have'
C24_DirectReplacements ==
    (entry = "correct_grammar" /\ pc = "model")
       => /\ \A i \in 1..Len(errors) :
                (IsSpanFinding(errors[i])
                 /\ errors[i].type \in {"spelling", "common_mistake", "subject_verb_agreement"})
                   => ~IsAdvice(errors[i].correction)
          /\ text = "I could of gone." => corrected_text = "I could have gone."

\* the findings analyze_sentence_structure returned
Analyzed == entry = "analyze_sentence_structure" /\ pc = "analyzed"

\* the types of the findings returned for one sentence
TypesFor(sentence) ==
    {result.errors[i].type :
        i \in {j \in 1..Len(result.errors) : result.errors[j].sentence = sentence}}

\* C25: for every sentence the structural analyzer reports at most one of
\* missing_subject and missing_verb, with the parser and without it
C25_SubjectOrVerb ==
    Analyzed
       => \A k \in 1..Len(sent_tokenize(text)) :
             ~({"missing_subject", "missing_verb"}
                  \subseteq TypesFor(Strip(sent_tokenize(text)[k])))

\* the parser read a verb and no subject, and the analyzer reported it
C25_Witness ==
    /\ Analyzed /\ parse.nlp /\ ~parse.has_subject /\ parse.has_verb
    /\ "missing_subject" \in TypesFor(text)

\* the categories detect_structure_errors_spacy and its helpers can append
ParserCategories ==
    {"missing_subject", "missing_verb", "word_order", "missing_article",
     "missing_preposition"}

\* the categories detect_structure_errors_rulebased can append
RegexCategories ==
    {"sentence_fragment", "word_order", "missing_words", "missing_verb",
     "missing_article", "missing_article_or_preposition", "missing_infinitive"}

\* C26: the two detectors cover the same categories: whatever category the
\* analyzer reports without the parser (missing_infinitive among them) the
\* parser path can report too, and whatever it reports with the parser
\* (missing_subject, missing_preposition) the regex path can report too
C26_SameCoverage ==
    Analyzed
       => \A i \in 1..Len(result.errors) :
             result.errors[i].type
                \in IF parse.nlp THEN RegexCategories ELSE ParserCategories

\* C27: a sentence of a multi-sentence text gets a correction entry only on
\* account of its own findings: a sentence for which the detector finds
\* nothing has no entry in corrections, whatever the sentences before it
C27_CorrectionsFollowOwnFindings ==
    Analyzed
       => \A k \in 1..Len(sent_tokenize(text)) :
             LET sentence == Strip(sent_tokenize(text)[k])
             IN (sentence # "" /\ DetectWith(parse, sentence) = << >>)
                   => \A c \in 1..Len(result.corrections) :
                         result.corrections[c].original # sentence

\* C28: when the AI-enhanced stage commits, the change list of the result
\* holds only the record of the AI correction, which leads to the returned
\* text; no change record of the structural stage is in it
C28_AiChangesOnly ==
    (Done /\ entry = "correct_grammar" /\ HasMethod(result, "ai_enhanced"))
       => \A i \in 1..Len(result.changes) :
             /\ result.changes[i].type = "ai_correction"
             /\ result.changes[i].corrected = result.corrected

\* the findings whose suggestion tells the writer what to add
AdvisoryTypes == {"missing_subject", "missing_verb", "sentence_fragment"}

\* C29: the suggestion of a missing_subject, missing_verb or sentence_fragment
\* finding is advice, and no entry point returns it as the corrected text
C29_AdviceNeverReturned ==
    (Done /\ ~IsBlank(text))
       => LET found == analyze_sentence_structure(text).errors
          IN \A i \in 1..Len(found) :
                found[i].type \in AdvisoryTypes
                   => ~StartsWith(result.corrected, found[i].suggestion)

\* what load_grammar_model prints when it goes past its early returns
LoadMessages == {"pipeline_loaded", "pipeline_failed", "manual_loaded", "manual_failed"}

\* C30: once load_grammar_model has succeeded, by the pipeline or by the
\* manual path, no later call of this process attempts a load again: nothing
\* is printed by load_grammar_model after its message of success
C30_LoadedOnce ==
    \A i \in 1..Len(log) :
       log[i] \in {"pipeline_loaded", "manual_loaded"}
          => \A j \in (i + 1)..Len(log) : log[j] \notin LoadMessages

====
